---- MODULE Spec2Model ----
(***************************************************************************)
(* A model of the Receiver Gather 1.6-1 reader of obspy.io.rg16.core:      *)
(* the format probe (_is_rg16), the initial-header decoder, the trace      *)
(* block walker (_internal_read_rg16), the per-trace decoder (_make_trace, *)
(* _make_stats, _read_trace_headers) and the merger (_quick_merge).        *)
(*                                                                         *)
(* The byte source is modelled byte by byte: a length and the bytes that   *)
(* are not zero.  Times are integer microseconds (the unit of the 8-byte   *)
(* fields of the format); a sampling interval 1/sampling_rate is a whole   *)
(* number of microseconds for each rate of the band map.  A sample is the  *)
(* tuple of its four bytes (big-endian IEEE-754 single precision).         *)
(***************************************************************************)
EXTENDS Integers, Sequences, FiniteSets, TLC

VARIABLES
    file,         \* the byte source: [len, nz, io]
    opts,         \* the options of the read_rg16 call
    pc,           \* position of the read_rg16 call
    idx,          \* loop index i of the walker
    pos,          \* trace_block_start, the walker's cursor
    nbr_records,  \* number of blocks the walker examines
    traces,       \* the walker's list of traces / the returned stream
    walked,       \* history: one record per block examined
    err,          \* the exception that ended the call ("none" if none)
    probe,        \* outcome of the is_rg16 call ("none" before it)
    merge_in,     \* the list the last call of _quick_merge was given
    merge_arg,    \* that list as it is after the call
    now,          \* the wall clock (time.localtime) of the read_rg16 call
    earlier,      \* the options given, and the outcome of an earlier call
    keys,         \* the default keys list of Stream.sort
    headers       \* what the read_initial_headers call returned

vars == <<file, opts, pc, idx, pos, nbr_records, traces, walked, err, probe,
          merge_in, merge_arg, now, earlier, keys,
                   headers>>

---------------------------------------------------------------------------
(* Bounds of the model. *)

\* largest nbr_time_slices written to extended header 2
MaxSlices == 2
\* largest sample count of a trace block
MaxNpts == 2

---------------------------------------------------------------------------
(* Small helpers. *)

Min(S) == CHOOSE x \in S : \A y \in S : x <= y

Max(S) == CHOOSE x \in S : \A y \in S : x >= y

Abs(x) == IF x < 0 THEN -x ELSE x

\* F applied to the value of e, which is computed once
Bind(e, F(_)) == CHOOSE r \in {F(x) : x \in {e}} : TRUE

RECURSIVE Digits(_)
\* str(n) for a non-negative integer, as a sequence of one-character strings
Digits(n) ==
    LET d == <<"0", "1", "2", "3", "4", "5", "6", "7", "8", "9">>
    IN  IF n < 10 THEN <<d[n + 1]>> ELSE Digits(n \div 10) \o <<d[(n % 10) + 1]>>

---------------------------------------------------------------------------
(* The byte source and the field reader (obspy.io.rg16.util._read).        *)
(* A width is counted in nibbles (w2 = 2 * width), so that the widths 0.5  *)
(* and 1.5 of the source are the integers 1 and 3.                         *)

\* the byte at absolute offset o
Byte(f, o) == IF o \in DOMAIN f.nz THEN f.nz[o] ELSE 0

RECURSIVE ReadBinary(_, _, _)
\* unsigned big-endian integer of w whole bytes at offset off
ReadBinary(f, off, w) ==
    IF w = 0 THEN 0 ELSE ReadBinary(f, off, w - 1) * 256 + Byte(f, off + w - 1)

\* the n-th nibble counted from the high nibble of the byte at offset off
Nibble(f, off, n) ==
    LET b == Byte(f, off + (n \div 2))
    IN  IF n % 2 = 0 THEN b \div 16 ELSE b % 16

RECURSIVE ReadBcdFrom(_, _, _, _)
\* the decimal number written by n nibbles starting at nibble first
ReadBcdFrom(f, off, first, n) ==
    IF n = 0 THEN 0
    ELSE ReadBcdFrom(f, off, first, n - 1) * 10 + Nibble(f, off, first + n - 1)

\* packed BCD of w2 nibbles; with a fractional width, left selects the high
\* nibble of the first byte as the first digit, otherwise its low nibble
ReadBcd(f, off, w2, left) == ReadBcdFrom(f, off, IF left THEN 0 ELSE 1, w2)

\* a binary field of half a byte: one nibble of the byte at off
ReadHalf(f, off, left) == Nibble(f, off, IF left THEN 0 ELSE 1)

\* the four bytes of the IEEE-754 single at off
ReadIEEE(f, off) == <<Byte(f, off), Byte(f, off + 1), Byte(f, off + 2), Byte(f, off + 3)>>

\* n consecutive singles starting at off
ReadIEEEArray(f, off, n) == [k \in 1..n |-> ReadIEEE(f, off + 4 * (k - 1))]

\* the source holds fewer than off + ceil(width) bytes
Truncated(f, off, w2) == off + ((w2 + 1) \div 2) > f.len

(* One call of _read, as a record: the field it fills, offset, width in    *)
(* nibbles, encoding, nibble flag, and the lookup table (legend) the value *)
(* is used as a key of, when there is one.                                 *)
Rd(name, off, w2, enc, left) ==
    [name |-> name, off |-> off, w2 |-> w2, enc |-> enc, left |-> left,
     lut |-> FALSE, tab |-> {}]

Bcd(name, off, w) == Rd(name, off, 2 * w, "bcd", TRUE)

Bin(name, off, w) == Rd(name, off, 2 * w, "binary", TRUE)

Ieee(name, off) == Rd(name, off, 8, "IEEE", TRUE)

\* a lookup that answers a default for a key the legend does not hold
LegGet(name, off, w, tab) ==
    [name |-> name, off |-> off, w2 |-> 2 * w, enc |-> "binary", left |-> TRUE,
     lut |-> FALSE, tab |-> tab]

\* key = str(_read(fi, off, w, 'binary')); legend[key]
Leg(name, off, w, tab) ==
    [name |-> name, off |-> off, w2 |-> 2 * w, enc |-> "binary", left |-> TRUE,
     lut |-> TRUE, tab |-> tab]

\* the exception one read (and the lookup made with its value) raises
StepErr(f, s) ==
    IF f.io THEN "IOError"
    ELSE IF Truncated(f, s.off, s.w2) THEN "ValueError"
    ELSE IF s.lut /\ ReadBinary(f, s.off, s.w2 \div 2) \notin s.tab THEN "KeyError"
    ELSE "ok"

\* the first exception raised by a sequence of reads made in order
RunSteps(f, steps) ==
    Bind(steps, LAMBDA ss :
        Bind({k \in 1..Len(ss) : StepErr(f, ss[k]) # "ok"}, LAMBDA bad :
            IF bad = {} THEN "ok" ELSE StepErr(f, ss[Min(bad)])))

\* the first exception of a sequence of outcomes
FirstErr(es) ==
    Bind(es, LAMBDA s :
        Bind({k \in 1..Len(s) : s[k] # "ok"}, LAMBDA bad :
            IF bad = {} THEN "ok" ELSE s[Min(bad)]))

---------------------------------------------------------------------------
(* The initial headers (_read_initial_headers and what it calls).          *)
(* Each decoder is the sequence of its reads, in the order of the source;  *)
(* an enumerated field is kept as its code, which the legend maps to its   *)
(* name one to one, and a code missing from the legend is a KeyError.      *)

GeneralHeader1Steps ==
    << Bcd("file_number", 0, 2),
       Bcd("sample_format_code", 2, 2),
       Bcd("general_constant", 4, 6),
       Bcd("time_slice_year", 10, 1),
       Rd("nbr_add_general_header", 11, 1, "bcd", TRUE),
       Rd("julian_day", 11, 3, "bcd", FALSE),
       Bcd("time_slice", 13, 3),
       Bcd("manufacturer_code", 16, 1),
       Bcd("manufacturer_serial_number", 17, 2),
       Bin("base_scan_interval", 22, 1),
       Rd("polarity_code", 23, 1, "binary", TRUE),
       Rd("record_type", 25, 1, "binary", TRUE),
       Bcd("scan_type_per_record", 27, 1),
       Bcd("nbr_channel_set", 28, 1),
       Bcd("nbr_skew_block", 29, 1) >>

GeneralHeader2Steps ==
    << Bin("extended_file_number", 32, 3),
       Bin("extended_channel_sets_per_scan_type", 35, 2),
       Bin("extended_header_blocks", 37, 2),
       Bin("external_header_blocks", 39, 3),
       Bin("version_number", 42, 2),
       Bin("extended_record_length", 46, 3),
       Bin("general_header_block_number", 50, 1) >>

ChannelSetSteps(start_byte) ==
    << Bcd("scan_type_number", start_byte, 1),
       Bcd("channel_set_number", start_byte + 1, 1),
       Bin("channel_set_start_time", start_byte + 2, 2),
       Bin("channel_set_end_time", start_byte + 4, 2),
       Bin("optionnal_MP_factor", start_byte + 6, 1),
       Bin("mp_factor_descaler_multiplier", start_byte + 7, 1),
       Bcd("nbr_channels_in_channel_set", start_byte + 8, 2),
       Rd("channel_type_code", start_byte + 10, 1, "binary", TRUE),
       Rd("nbr_sub_scans", start_byte + 11, 1, "bcd", TRUE),
       Rd("gain_control_type", start_byte + 11, 1, "bcd", FALSE),
       Bcd("alias_filter_frequency", start_byte + 12, 2),
       Bcd("alias_filter_slope", start_byte + 14, 2),
       Bcd("low_cut_filter_freq", start_byte + 16, 2),
       Bcd("low_cut_filter_slope", start_byte + 18, 2),
       Bcd("notch_filter_freq", start_byte + 20, 2),
       Bcd("notch_2_filter_freq", start_byte + 22, 2),
       Bcd("notch_3_filter_freq", start_byte + 24, 2),
       Bin("extended_channel_set_number", start_byte + 26, 2),
       Rd("extended_header_flag", start_byte + 28, 1, "binary", TRUE),
       Rd("nbr_32_byte_trace_header_extension", start_byte + 28, 1, "binary", FALSE),
       Bin("vertical_stack_size", start_byte + 29, 1),
       Bin("RU_channel_number", start_byte + 30, 1),
       Bin("array_forming", start_byte + 31, 1) >>

ExtendedHeader1Steps(start_byte) ==
    << Bin("id_ru", start_byte, 8),
       Bin("deployment_time", start_byte + 8, 8),
       Bin("pick_up_time", start_byte + 16, 8),
       Bin("start_time_ru", start_byte + 24, 8) >>

ExtendedHeader2Steps(start_byte) ==
    << Ieee("acquisition_drift_window", start_byte),
       Bin("clock_drift", start_byte + 4, 8),
       Leg("clock_stop_method", start_byte + 12, 1, 0..3),
       Leg("frequency_drift", start_byte + 13, 1, 0..1),
       Leg("oscillator_type", start_byte + 14, 1, 0..4),
       Leg("data_collection_method", start_byte + 15, 1, 0..2),
       Bin("nbr_time_slices", start_byte + 16, 4),
       Bin("nbr_files", start_byte + 20, 4),
       Bin("file_number", start_byte + 24, 4),
       Leg("data_decimation", start_byte + 28, 1, 0..1),
       Bin("original_base_scan_interval", start_byte + 29, 1),
       Bin("number_decimation_filter_coefficient", start_byte + 30, 2) >>

ExtendedHeader3Steps(start_byte) ==
    << Bin("receiver_line_number", start_byte, 4),
       Bin("receiver_point", start_byte + 4, 4),
       Bin("receiver_point_index", start_byte + 8, 1),
       Bin("first_shot_line", start_byte + 9, 4),
       Bin("first_shot_point", start_byte + 13, 4),
       Bin("first_shot_point_index", start_byte + 17, 1),
       Bin("last_shot_line", start_byte + 18, 4),
       Bin("last_shot_point", start_byte + 22, 4),
       Bin("last_shot_point_index", start_byte + 26, 1) >>

\* _read_extended_header: nbr_coeff singles at consecutive 4-byte offsets
ExtendedHeaderSteps(start_byte, nbr_coeff) ==
    [k \in 1..nbr_coeff |-> Ieee(<<"coeff_", k>>, start_byte + 4 * (k - 1))]

RECURSIVE Flatten(_)
\* the concatenation of a sequence of sequences
Flatten(ss) ==
    Bind(ss, LAMBDA s : IF s = << >> THEN << >> ELSE Head(s) \o Flatten(Tail(s)))

\* the nbr_channel_set read on which the layout of the rest depends
NbrChannelSet(f) == ReadBcd(f, 28, 2, TRUE)

\* _read_channel_sets: descriptor i+1 is read at 64 + 32 * i
ChannelSetsSteps(f) ==
    << Bcd("nbr_channel_set", 28, 1) >> \o
    Flatten([k \in 1..NbrChannelSet(f) |-> ChannelSetSteps(64 + 32 * (k - 1))])

\* eight coefficients asked of every block
NbrCoeffOfBlockEight(f, b) == 8

\* the number of coefficients _read_extended_headers asks of block number b
\* (4 <= b <= nbr_extended_headers)
NbrCoeffOfBlock(f, b) ==
    LET start_byte == 32 + 32 + 32 * NbrChannelSet(f)
        coeffs == ReadBinary(f, start_byte + 32 + 30, 2)
        nbr_coeff_remain == coeffs % 8
    IN  IF b = ReadBinary(f, 37, 2) THEN nbr_coeff_remain ELSE 8

\* _read_extended_headers: blocks 1 to 3, then the coefficient blocks
ExtendedHeadersSteps(f) ==
    LET start_byte == 32 + 32 + 32 * NbrChannelSet(f)
        nbr_extended_headers == ReadBinary(f, 37, 2)
    IN  << Bcd("nbr_channel_set", 28, 1) >> \o
        ExtendedHeader1Steps(start_byte) \o
        ExtendedHeader2Steps(start_byte + 32) \o
        ExtendedHeader3Steps(start_byte + 64) \o
        << Bin("nbr_extended_headers", 37, 2) >> \o
        Flatten([k \in 1..(IF nbr_extended_headers > 3
                           THEN nbr_extended_headers - 3 ELSE 0) |->
                   ExtendedHeaderSteps(start_byte + 64 + 32 * k,
                                       NbrCoeffOfBlock(f, k + 3))])

\* every read of _internal_read_initial_headers, in order
InitialHeadersSteps(f) ==
    GeneralHeader1Steps \o GeneralHeader2Steps \o ChannelSetsSteps(f) \o
    ExtendedHeadersSteps(f)

\* the value a read returns
StepValue(f, s) ==
    IF s.enc = "IEEE" THEN ReadIEEE(f, s.off)
    ELSE IF s.enc = "bcd" THEN ReadBcd(f, s.off, s.w2, s.left)
    ELSE IF s.w2 = 1 THEN ReadHalf(f, s.off, s.left)
    ELSE ReadBinary(f, s.off, s.w2 \div 2)

\* the dictionary a sequence of reads fills: field name -> value
StepsDict(f, steps) ==
    Bind(steps, LAMBDA ss :
        [n \in {ss[k].name : k \in 1..Len(ss)} |->
            StepValue(f, ss[Max({k \in 1..Len(ss) : ss[k].name = n})])])

\* _internal_read_initial_headers: the exception it raises ("ok" if none) and
\* the nested dictionary it returns
InternalReadInitialHeaders(f) ==
    Bind(<<RunSteps(f, InitialHeadersSteps(f)), 32 + 32 + 32 * NbrChannelSet(f),
           ReadBinary(f, 37, 2)>>, LAMBDA v :
    LET e == v[1]
        start_byte == v[2]
        neh == v[3]
    IN  IF e # "ok" THEN [err |-> e]
        ELSE [err |-> "ok",
              general_header_1 |-> StepsDict(f, GeneralHeader1Steps),
              general_header_2 |-> StepsDict(f, GeneralHeader2Steps),
              channel_sets_descriptor |->
                  [k \in 1..NbrChannelSet(f) |->
                      StepsDict(f, ChannelSetSteps(64 + 32 * (k - 1)))],
              extended_headers |->
                  [b \in 1..(IF neh > 3 THEN neh ELSE 3) |->
                      IF b = 1 THEN StepsDict(f, ExtendedHeader1Steps(start_byte))
                      ELSE IF b = 2 THEN StepsDict(f, ExtendedHeader2Steps(start_byte + 32))
                      ELSE IF b = 3 THEN StepsDict(f, ExtendedHeader3Steps(start_byte + 64))
                      ELSE StepsDict(f, ExtendedHeaderSteps(start_byte + 32 * (b - 1),
                                                          NbrCoeffOfBlock(f, b)))]])

---------------------------------------------------------------------------
(* The trace headers: the 20-byte trace header and the extension blocks    *)
(* (_read_trace_header, _read_trace_header_1 .. _read_trace_header_10).    *)

TraceHeaderSteps(trace_block_start) ==
    << Bcd("trace_number", trace_block_start + 4, 2),
       Bin("trace_edit_code", trace_block_start + 11, 1) >>

TraceHeader1Steps(trace_block_start) ==
    LET p == trace_block_start + 20
    IN  << Bin("extended_receiver_line_nbr", p + 10, 5),
           Bin("extended_receiver_point_nbr", p + 15, 5),
           Bin("sensor_type", p + 20, 1),
           Bin("trace_count_file", p + 21, 4) >>

TraceHeader2Steps(trace_block_start) ==
    LET p == trace_block_start + 20 + 32
    IN  << Bin("shot_line_nbr", p, 4),
           Bin("shot_point", p + 4, 4),
           Bin("shot_point_index", p + 8, 1),
           Bin("shot_point_pre_plan_x", p + 9, 4),
           Bin("shot_point_pre_plan_y", p + 13, 4),
           Bin("shot_point_final_x", p + 17, 4),
           Bin("shot_point_final_y", p + 21, 4),
           Bin("shot_point_final_depth", p + 25, 4),
           Leg("source_of_final_shot_info", p + 29, 1, 0..3),
           Leg("energy_source_type", p + 30, 1, 0..3) >>

TraceHeader3Steps(trace_block_start) ==
    LET p == trace_block_start + 20 + 32 * 2
    IN  << Bin("epoch_time", p, 8),
           Bin("shot_skew_time", p + 8, 8),
           Bin("time_shift_clock_correction", p + 16, 8),
           Bin("remaining_clock_correction", p + 24, 8) >>

TraceHeader4Steps(trace_block_start) ==
    LET p == trace_block_start + 20 + 32 * 3
    IN  << Bin("pre_shot_guard_band", p, 4),
           Bin("post_shot_guard_band", p + 4, 4),
           Bin("preamp_gain", p + 8, 1),
           Leg("trace_clipped_flag", p + 9, 1, 0..2),
           Leg("record_type_code", p + 10, 1, {2, 8}),
           Leg("shot_status_flag", p + 11, 1, 0..2),
           Bin("external_shot_id", p + 12, 4),
           Ieee("post_processed_first_break_pick_time", p + 24),
           Ieee("post_processed_rms_noise", p + 28) >>

TraceHeader5Steps(trace_block_start) ==
    LET p == trace_block_start + 20 + 32 * 4
    IN  << Bin("receiver_point_pre_plan_x", p + 9, 4),
           Bin("receiver_point_pre_plan_y", p + 13, 4),
           Bin("receiver_point_final_x", p + 17, 4),
           Bin("receiver_point_final_y", p + 21, 4),
           Bin("receiver_point_final_depth", p + 25, 4),
           Leg("source_of_final_receiver_info", p + 29, 1, 1..11) >>

TraceHeader6Steps(trace_block_start) ==
    LET p == trace_block_start + 20 + 32 * 5
    IN  << Ieee("tilt_matrix_h1x", p),
           Ieee("tilt_matrix_h2x", p + 4),
           Ieee("tilt_matrix_vx", p + 8),
           Ieee("tilt_matrix_h1y", p + 12),
           Ieee("tilt_matrix_h2y", p + 16),
           Ieee("tilt_matrix_vy", p + 20),
           Ieee("tilt_matrix_h1z", p + 24),
           Ieee("tilt_matrix_h2z", p + 28) >>

TraceHeader7Steps(trace_block_start) ==
    LET p == trace_block_start + 20 + 32 * 6
    IN  << Ieee("tilt_matrix_vz", p),
           Ieee("azimuth_degree", p + 4),
           Ieee("pitch_degree", p + 8),
           Ieee("roll_degree", p + 12),
           Ieee("remote_unit_temp", p + 16),
           Ieee("remote_unit_humidity", p + 20),
           Bin("orientation_matrix_version_nbr", p + 24, 4),
           Bin("gimbal_corrections", p + 28, 1) >>

TraceHeader8Steps(trace_block_start) ==
    LET p == trace_block_start + 20 + 32 * 7
    IN  << Bin("fairfield_test_analysis_code", p, 4),
           Bin("first_test_oscillator_attenuation", p + 4, 4),
           Bin("second_test_oscillator_attenuation", p + 8, 4),
           Bin("start_delay", p + 12, 4),
           Bin("dc_filter_flag", p + 16, 4),
           Ieee("dc_filter_frequency", p + 20),
           Leg("preamp_path", p + 24, 4, 0..12),
           Leg("test_oscillator_signal_type", p + 28, 4, 0..4) >>

TraceHeader9Steps(trace_block_start) ==
    LET p == trace_block_start + 20 + 32 * 8
    IN  << Leg("test_signal_generator_signal_type", p, 4, 0..11),
           Bin("test_signal_generator_frequency_1", p + 4, 4),
           Bin("test_signal_generator_frequency_2", p + 8, 4),
           Bin("test_signal_generator_amplitude_1", p + 12, 4),
           Bin("test_signal_generator_amplitude_2", p + 16, 4),
           Ieee("test_signal_generator_duty_cycle_percentage", p + 20),
           Bin("test_signal_generator_active_duration", p + 24, 4),
           Bin("test_signal_generator_activation_time", p + 28, 4) >>

TraceHeader10Steps(trace_block_start) ==
    LET p == trace_block_start + 20 + 32 * 9
    IN  << Bin("test_signal_generator_idle_level", p, 4),
           Bin("test_signal_generator_active_level", p + 4, 4),
           Bin("test_signal_generator_pattern_1", p + 8, 4),
           Bin("test_signal_generator_pattern_2", p + 12, 4) >>

\* dict_func of _read_trace_headers: the decoder of extension block i (1..10)
DictFunc(i, trace_block_start) ==
    CASE i = 1 -> TraceHeader1Steps(trace_block_start)
      [] i = 2 -> TraceHeader2Steps(trace_block_start)
      [] i = 3 -> TraceHeader3Steps(trace_block_start)
      [] i = 4 -> TraceHeader4Steps(trace_block_start)
      [] i = 5 -> TraceHeader5Steps(trace_block_start)
      [] i = 6 -> TraceHeader6Steps(trace_block_start)
      [] i = 7 -> TraceHeader7Steps(trace_block_start)
      [] i = 8 -> TraceHeader8Steps(trace_block_start)
      [] i = 9 -> TraceHeader9Steps(trace_block_start)
      [] i = 10 -> TraceHeader10Steps(trace_block_start)

\* the largest block number dict_func knows
NbrTraceHeaderFuncs == 10

\* a loop that decodes one block more
LastTraceHeaderNext(nbr_trace_header) ==
    IF nbr_trace_header < 10 THEN nbr_trace_header + 1 ELSE nbr_trace_header

\* range(1, nbr_trace_header + 1): the last block number of the loop
LastTraceHeader(nbr_trace_header) == nbr_trace_header

\* _read_trace_headers: blocks 1..nbr_trace_header are decoded in order; a
\* block number that dict_func does not hold is a KeyError
ReadTraceHeaders(f, trace_block_start, nbr_trace_header) ==
    LET known == IF nbr_trace_header > NbrTraceHeaderFuncs
                 THEN NbrTraceHeaderFuncs ELSE LastTraceHeader(nbr_trace_header)
        steps == Flatten([i \in 1..known |-> DictFunc(i, trace_block_start)])
        e == FirstErr(<< RunSteps(f, steps),
                         IF nbr_trace_header > NbrTraceHeaderFuncs
                         THEN "KeyError" ELSE "ok" >>)
    IN  IF e # "ok" THEN [err |-> e]
        ELSE [err |-> "ok", headers |-> StepsDict(f, steps)]

---------------------------------------------------------------------------
(* The layout geometry and the record count.                               *)

\* _cmp_nbr_headers
CmpNbrHeaders(f) ==
    [err |-> RunSteps(f, << Bcd("nbr_channel_set_headers", 28, 1),
                            Bin("nbr_extended_headers", 37, 2),
                            Bin("nbr_external_headers", 39, 3) >>),
     nbr_channel_set_headers |-> ReadBcd(f, 28, 2, TRUE),
     nbr_extended_headers |-> ReadBinary(f, 37, 2),
     nbr_external_headers |-> ReadBinary(f, 39, 3)]

\* the number of descriptors, repeated RU channel numbers included
NbrComponentAll(channel_sets_descriptor) == Len(channel_sets_descriptor)

\* nbr_component of _cmp_nbr_records: the size of the set of the RU channel
\* numbers of the descriptors
NbrComponent(channel_sets_descriptor) ==
    Cardinality({channel_sets_descriptor[k]["RU_channel_number"] :
                    k \in DOMAIN channel_sets_descriptor})

\* _cmp_nbr_records: time slices times the number of distinct RU channel numbers
CmpNbrRecords(f) ==
    Bind(InternalReadInitialHeaders(f), LAMBDA initial_header :
        IF initial_header.err # "ok" THEN [err |-> initial_header.err]
        ELSE LET nbr_component == NbrComponent(initial_header.channel_sets_descriptor)
                 nbr_time_slices == initial_header.extended_headers[2]["nbr_time_slices"]
             IN  [err |-> "ok", nbr_records |-> nbr_time_slices * nbr_component])

\* the length of a trace block without its extension blocks
NbrBytesTraceBlockNoExt(nbr_trace_extension_block, nbr_sample_trace) ==
    nbr_sample_trace * 4 + 20

\* nbr_bytes_trace_block of _cmp_jump
NbrBytesTraceBlock(nbr_trace_extension_block, nbr_sample_trace) ==
    LET nbr_bytes_header_trace == 20 + 32 * nbr_trace_extension_block
        nbr_bytes_trace_data == nbr_sample_trace * 4
    IN  nbr_bytes_trace_data + nbr_bytes_header_trace

\* _cmp_jump: the number of bytes of the trace block at trace_block_start
CmpJump(f, trace_block_start) ==
    [err |-> RunSteps(f, << Bin("nbr_trace_extension_block", trace_block_start + 9, 1),
                            Bin("nbr_sample_trace", trace_block_start + 27, 3) >>),
     nbr_bytes_trace_block |->
         NbrBytesTraceBlock(ReadBinary(f, trace_block_start + 9, 1),
                            ReadBinary(f, trace_block_start + 27, 3))]

---------------------------------------------------------------------------
(* One trace (_make_stats, _make_trace).                                   *)

\* a band map that holds one more sampling rate
BandMapWide == [r \in {4000, 2000, 1000, 500, 250} |->
                   IF r = 4000 THEN "F" ELSE IF r \in {2000, 1000} THEN "G" ELSE "D"]

\* band_map of _make_stats
BandMap == [r \in {2000, 1000, 500, 250} |->
               IF r \in {2000, 1000} THEN "G" ELSE "D"]

\* a component map with the horizontal components exchanged
StandardComponentMapSwapped == [c \in {2, 3, 4} |->
               IF c = 2 THEN "Z" ELSE IF c = 3 THEN "E" ELSE "N"]

\* standard_component_map of _make_stats
StandardComponentMap == [c \in {2, 3, 4} |->
               IF c = 2 THEN "Z" ELSE IF c = 3 THEN "N" ELSE "E"]

\* int(1000 / (base_scan_interval / 16)), for base_scan_interval > 0
SamplingRate(base_scan_interval) == 16000 \div base_scan_interval

\* 1 / sampling_rate, in microseconds
Delta(sampling_rate) == 1000000 \div sampling_rate

\* an end time one sample interval late
EndTimeNoMinus(start_time, npts, sampling_rate) ==
    start_time + npts * Delta(sampling_rate)

\* end_time = start_time + (npts - 1) * (1 / sampling_rate)
EndTime(start_time, npts, sampling_rate) ==
    start_time + (npts - 1) * Delta(sampling_rate)

\* the rg16 entry of the statistics (details = True)
Rg16Details(f, trace_block_start) ==
    Bind(<< InternalReadInitialHeaders(f),
            RunSteps(f, TraceHeaderSteps(trace_block_start) \o
                        << Bin("nbr_tr_header_block", trace_block_start + 9, 1) >>),
            IF ReadBinary(f, trace_block_start + 9, 1) > 0
            THEN ReadTraceHeaders(f, trace_block_start,
                                  ReadBinary(f, trace_block_start + 9, 1))
            ELSE [err |-> "ok", headers |-> << >>] >>, LAMBDA v :
    LET ih == v[1]
        th == v[2]
        ths == v[3]
        e == FirstErr(<<ih.err, th, ths.err>>)
    IN  IF e # "ok" THEN [err |-> e]
        ELSE [err |-> "ok",
              rg16 |-> [initial_headers |-> [k \in DOMAIN ih \ {"err"} |-> ih[k]],
                        trace_headers |->
                            ths.headers @@ StepsDict(f, TraceHeaderSteps(trace_block_start))]])

\* the exception of _make_stats before the details are read
StatsErr(f, trace_block_start, standard_orientation) ==
    FirstErr(<<
        RunSteps(f, << Bin("base_scan_interval", 22, 1) >>),
        IF ReadBinary(f, 22, 1) = 0 THEN "ZeroDivisionError" ELSE "ok",
        RunSteps(f, << Bin("component", trace_block_start + 40, 1) >>),
        IF standard_orientation /\
           ReadBinary(f, trace_block_start + 40, 1) \notin DOMAIN StandardComponentMap
        THEN "KeyError" ELSE "ok",
        IF ReadBinary(f, 22, 1) # 0 /\
           SamplingRate(ReadBinary(f, 22, 1)) \notin DOMAIN BandMap
        THEN "KeyError" ELSE "ok",
        RunSteps(f, << Bin("npts", trace_block_start + 27, 3),
                       Bin("start_time", trace_block_start + 20 + 2 * 32, 8),
                       Bin("network", trace_block_start + 20, 3),
                       Bin("station", trace_block_start + 23, 3),
                       Bin("location", trace_block_start + 26, 1) >>) >>)

\* statsdict of _make_stats, without the rg16 entry
StatsDict(f, trace_block_start, standard_orientation) ==
    LET base_scan_interval == ReadBinary(f, 22, 1)
        sampling_rate == SamplingRate(base_scan_interval)
        raw_component == ReadBinary(f, trace_block_start + 40, 1)
        component == IF standard_orientation
                     THEN <<StandardComponentMap[raw_component]>>
                     ELSE Digits(raw_component)
        chan == <<BandMap[sampling_rate], "P">> \o component
        npts == ReadBinary(f, trace_block_start + 27, 3)
        start_time == ReadBinary(f, trace_block_start + 20 + 2 * 32, 8)
        end_time == EndTime(start_time, npts, sampling_rate)
        network == ReadBinary(f, trace_block_start + 20, 3)
        station == ReadBinary(f, trace_block_start + 23, 3)
        location == ReadBinary(f, trace_block_start + 26, 1)
    IN  [starttime |-> start_time,
         endtime |-> end_time,
         sampling_rate |-> sampling_rate,
         npts |-> npts,
         network |-> Digits(network),
         station |-> Digits(station),
         location |-> Digits(location),
         channel |-> chan]

\* _make_stats: the exception it raises, or the Stats it returns
MakeStats(f, trace_block_start, standard_orientation, details) ==
    Bind(StatsErr(f, trace_block_start, standard_orientation), LAMBDA e :
        IF e # "ok" THEN [err |-> e]
        ELSE IF ~details
        THEN [err |-> "ok",
              stats |-> StatsDict(f, trace_block_start, standard_orientation)]
        ELSE Bind(Rg16Details(f, trace_block_start), LAMBDA det :
                IF det.err # "ok" THEN [err |-> det.err]
                ELSE [err |-> "ok",
                      stats |-> StatsDict(f, trace_block_start, standard_orientation)
                                @@ [rg16 |-> det.rg16]]))

\* -x that leaves every sample as it is
NegateNot(x) == x

\* -x of an IEEE-754 single: the sign bit of its first byte is flipped
Negate(x) == <<(x[1] + 128) % 256, x[2], x[3], x[4]>>

\* trace_start that skips no extension block
TraceStartNoExt(trace_block_start, nbr_trace_extension_block) ==
    trace_block_start + 20

\* trace_start of _make_trace: the offset of the first sample
TraceStart(trace_block_start, nbr_trace_extension_block) ==
    trace_block_start + 20 + nbr_trace_extension_block * 32

\* _make_trace: the exception it raises, or the Trace it returns
MakeTrace(f, trace_block_start, headonly, standard_orientation, details) ==
    Bind(MakeStats(f, trace_block_start, standard_orientation, details), LAMBDA st :
    LET nbr_trace_extension_block == ReadBinary(f, trace_block_start + 9, 1)
        trace_start == TraceStart(trace_block_start, nbr_trace_extension_block)
        nbr_sample_trace == ReadBinary(f, trace_block_start + 27, 3)
        nbr_bytes_trace == 4 * nbr_sample_trace
    IN  IF st.err # "ok" THEN [err |-> st.err]
        ELSE IF headonly
        THEN [err |-> "ok",
              trace |-> [data |-> << >>, dtype |-> "float64", stats |-> st.stats]]
        ELSE Bind(RunSteps(f, << Bin("nbr_trace_extension_block",
                                     trace_block_start + 9, 1),
                                 Bin("nbr_sample_trace", trace_block_start + 27, 3),
                                 Rd("data", trace_start, 2 * nbr_bytes_trace,
                                    "IEEE", TRUE) >>), LAMBDA e :
                IF e # "ok" THEN [err |-> e]
                ELSE Bind(ReadIEEEArray(f, trace_start, nbr_sample_trace), LAMBDA raw :
                        [err |-> "ok",
                         trace |-> [data |-> IF st.stats.channel[Len(st.stats.channel)] = "Z"
                                             THEN [k \in DOMAIN raw |-> Negate(raw[k])]
                                             ELSE raw,
                                    dtype |-> ">f4",
                                    stats |-> st.stats]])))

---------------------------------------------------------------------------
(* The merger (_quick_merge, _trace_list_to_rec_array, _get_trace_groups). *)

\* the character code of a one-character string of a trace id
Ord(c) ==
    CASE c = "." -> 46
      [] c = "0" -> 48 [] c = "1" -> 49 [] c = "2" -> 50 [] c = "3" -> 51
      [] c = "4" -> 52 [] c = "5" -> 53 [] c = "6" -> 54 [] c = "7" -> 55
      [] c = "8" -> 56 [] c = "9" -> 57
      [] c = "D" -> 68 [] c = "E" -> 69 [] c = "G" -> 71 [] c = "N" -> 78
      [] c = "P" -> 80 [] c = "Z" -> 90

\* Trace.id: network.station.location.channel
TraceId(tr) ==
    tr.stats.network \o <<".">> \o tr.stats.station \o <<".">> \o
    tr.stats.location \o <<".">> \o tr.stats.channel

RECURSIVE StrLess(_, _)
\* a < b for two strings (sequences of characters), as Python compares them
StrLess(a, b) ==
    IF b = << >> THEN FALSE
    ELSE IF a = << >> THEN TRUE
    ELSE IF Ord(Head(a)) # Ord(Head(b)) THEN Ord(Head(a)) < Ord(Head(b))
    ELSE StrLess(Tail(a), Tail(b))

\* row a sorts before row b under order = ['id', 'starttime']
RowLess(a, b) ==
    \/ StrLess(a.id, b.id)
    \/ a.id = b.id /\ a.starttime < b.starttime

\* the rows of the record arrays: id, starttime, endtime and the trace (its
\* value, and ref: which object of the list it is)
Rows(trs) ==
    [k \in 1..Len(trs) |->
        [id |-> TraceId(trs[k]),
         starttime |-> trs[k].stats.starttime,
         endtime |-> trs[k].stats.endtime,
         trace |-> trs[k],
         ref |-> k]]

\* sort_index of _trace_list_to_rec_array: position in the sorted array of row k
\* (rows that compare equal keep their order)
SortRank(rows, k) ==
    1 + Cardinality({j \in 1..Len(rows) :
                        \/ RowLess(rows[j], rows[k])
                        \/ (~RowLess(rows[k], rows[j]) /\ j < k)})

\* _trace_list_to_rec_array: the rows sorted by (id, starttime)
TraceListToRecArray(trs) ==
    Bind(Rows(trs), LAMBDA rows :
        Bind([k \in 1..Len(rows) |-> SortRank(rows, k)], LAMBDA rank :
            [r \in 1..Len(rows) |-> rows[CHOOSE k \in 1..Len(rows) : rank[k] = r]]))

\* every row taken to start a new id
IdsDifferentAlways(ar, k) == TRUE

\* ids_different[k] of _get_trace_groups
IdsDifferent(ar, k) == k = 1 \/ ar[k].id # ar[k - 1].id

\* disjoint[k] of _get_trace_groups
Disjoint(ar, diff, k) ==
    k < Len(ar) /\ Abs(ar[k + 1].starttime - ar[k].endtime) <= diff

\* _get_trace_groups: np.cumsum(ids_different & disjoint)
GetTraceGroups(ar, diff) ==
    [k \in 1..Len(ar) |->
        Cardinality({j \in 1..k : IdsDifferent(ar, j) /\ Disjoint(ar, diff, j)})]

\* small_number of _quick_merge, in microseconds
SmallNumber == 1

\* new_stats.npts = n on a copy of the statistics; the end time follows npts
SetNpts(stats, n) ==
    [stats EXCEPT !.npts = n,
                  !.endtime = EndTime(stats.starttime, n, stats.sampling_rate)]

\* the members of group gnum concatenated: the data of the rows in order, the
\* statistics of the first row with npts updated
MergeGroup(ar, group, gnum) ==
    Bind({k \in 1..Len(ar) : group[k] = gnum}, LAMBDA members :
        Bind([m \in 1..Cardinality(members) |->
                 ar[CHOOSE k \in members :
                        Cardinality({j \in members : j < k}) = m - 1].trace],
             LAMBDA trace_ar_to_merge :
            Bind(Flatten([m \in 1..Len(trace_ar_to_merge) |->
                             trace_ar_to_merge[m].data]), LAMBDA new_data :
                [data |-> new_data,
                 dtype |-> trace_ar_to_merge[1].dtype,
                 stats |-> SetNpts(trace_ar_to_merge[1].stats, Len(new_data))])))

\* an assertion that is never checked
AssertNothing(values) == TRUE

\* assert len({...}) == 1
AssertOne(values) == Cardinality(values) = 1

\* _quick_merge: the exception it raises, or the list of merged traces
QuickMerge(traces_in) ==
    Bind(traces_in, LAMBDA trs :
    IF ~AssertOne({trs[k].stats.sampling_rate : k \in 1..Len(trs)})
    THEN [err |-> "AssertionError"]
    ELSE IF ~AssertOne({trs[k].dtype : k \in 1..Len(trs)})
    THEN [err |-> "AssertionError"]
    ELSE
      Bind(TraceListToRecArray(trs), LAMBDA ar :
        Bind(GetTraceGroups(ar, Delta(trs[1].stats.sampling_rate) + SmallNumber),
             LAMBDA group :
          Bind({group[k] : k \in 1..Len(ar)}, LAMBDA group_numbers :
            [err |-> "ok",
             out |-> [index \in 1..Cardinality(group_numbers) |->
                         MergeGroup(ar, group,
                             CHOOSE g \in group_numbers :
                                 Cardinality({h \in group_numbers : h < g})
                                     = index - 1)]]))))

\* a copy that is the object itself
DeepcopyAlias(obj, fresh) == obj

\* copy.deepcopy(obj): an object of its own (fresh)
Deepcopy(obj, fresh) == fresh

\* the list given to _quick_merge as it is after the call: the objects of the
\* list are 1..len(traces), the statistics made for the index-th output are
\* the object len(traces) + index, and new_stats.npts = len(new_data) writes
\* the object that new_stats is
QuickMergeArg(traces_in) ==
    Bind(traces_in, LAMBDA trs :
    Bind(QuickMerge(trs), LAMBDA m :
    IF m.err # "ok" THEN trs
    ELSE
      Bind(TraceListToRecArray(trs), LAMBDA ar :
        Bind(GetTraceGroups(ar, Delta(trs[1].stats.sampling_rate) + SmallNumber),
             LAMBDA group :
          Bind({group[k] : k \in 1..Len(ar)}, LAMBDA group_numbers :
            Bind([index \in 1..Cardinality(group_numbers) |->
                     Deepcopy(ar[Min({k \in 1..Len(ar) :
                                 Cardinality({h \in group_numbers : h < group[k]})
                                     = index - 1})].ref,
                              Len(trs) + index)], LAMBDA new_stats :
              [k \in 1..Len(trs) |->
                  IF \E index \in 1..Len(new_stats) : new_stats[index] = k
                  THEN [trs[k] EXCEPT !.stats =
                           m.out[CHOOSE index \in 1..Len(new_stats) :
                                     new_stats[index] = k].stats]
                  ELSE trs[k]]))))))

---------------------------------------------------------------------------
(* The format probe (_is_rg16, _internal_is_rg16).                         *)

\* the answer without the test of the manufacturer code
ConNoManufacturer(version, sample_format, manufacturer_code) ==
    version = 262 /\ sample_format = 8058

\* the answer of _internal_is_rg16 when the three reads succeed
Con(version, sample_format, manufacturer_code) ==
    LET con1 == version = 262 /\ sample_format = 8058
    IN  con1 /\ manufacturer_code = 20

\* _internal_is_rg16: a ValueError of the three reads is caught and answers
\* False; any other exception leaves the probe
InternalIsRg16(f) ==
    LET e == RunSteps(f, << Bcd("sample_format", 2, 2),
                            Bcd("manufacturer_code", 16, 1),
                            Bin("version", 42, 2) >>)
        sample_format == ReadBcd(f, 2, 4, TRUE)
        manufacturer_code == ReadBcd(f, 16, 2, TRUE)
        version == ReadBinary(f, 42, 2)
    IN  IF e = "ValueError" THEN [err |-> "ok", value |-> FALSE]
        ELSE IF e # "ok" THEN [err |-> e, value |-> FALSE]
        ELSE [err |-> "ok", value |-> Con(version, sample_format, manufacturer_code)]

---------------------------------------------------------------------------
(* The byte sources the calls are made on: files written field by field   *)
(* from a description, with every byte not named left zero.                *)

\* byte e (0 = last) of the big-endian image of v
EncByte(v, e) == IF e >= 4 THEN 0 ELSE (v \div (256 ^ e)) % 256

\* w bytes at off holding v as a big-endian unsigned integer
PutBinary(off, w, v) == [o \in off..(off + w - 1) |-> EncByte(v, off + w - 1 - o)]

\* w bytes at off holding v as packed BCD
PutBcd(off, w, v) ==
    [o \in off..(off + w - 1) |->
        LET e == off + w - 1 - o
            d == IF e >= 4 THEN 0 ELSE (v \div (100 ^ e)) % 100
        IN  (d \div 10) * 16 + (d % 10)]

RECURSIVE MergeAll(_)
\* the union of a sequence of byte maps (the first one wins where two overlap)
MergeAll(ms) ==
    Bind(ms, LAMBDA m : IF m = << >> THEN << >> ELSE Head(m) @@ MergeAll(Tail(m)))

\* slot k of extended header block b (b > 3): a single whose bytes name it
CoeffBytes(b, k) == <<63, b, k, 1>>

\* the eight 4-byte slots of each extended header block after the third,
\* all written
CoeffBlocksBytes(fs) ==
    LET start_byte == 64 + 32 * Len(fs.rus)
    IN  MergeAll([n \in 1..(8 * (IF fs.neh > 3 THEN fs.neh - 3 ELSE 0)) |->
            LET b == 4 + ((n - 1) \div 8)
                k == 1 + ((n - 1) % 8)
                off == start_byte + 32 * (b - 1) + 4 * (k - 1)
            IN  [o \in off..(off + 3) |-> CoeffBytes(b, k)[o - off + 1]]])

\* the bytes of the two general headers, the channel sets and the extended
\* headers of file description fs (200 is a code no legend holds)
HeaderBytes(fs) ==
    LET ncs == Len(fs.rus)
        eh2 == 64 + 32 * ncs + 32
    IN  MergeAll(<< PutBcd(2, 2, fs.sfc),
                    PutBcd(16, 1, fs.man),
                    PutBinary(22, 1, fs.bsi),
                    PutBcd(28, 1, ncs),
                    PutBinary(37, 2, fs.neh),
                    PutBinary(39, 3, fs.nxh),
                    PutBinary(42, 2, fs.ver),
                    MergeAll([k \in 1..ncs |->
                                 PutBinary(64 + 32 * (k - 1) + 30, 1, fs.rus[k])]),
                    PutBinary(eh2 + 12, 1, IF fs.eh2bad = 1 THEN 200 ELSE 0),
                    PutBinary(eh2 + 13, 1, IF fs.eh2bad = 2 THEN 200 ELSE 1),
                    PutBinary(eh2 + 14, 1, IF fs.eh2bad = 3 THEN 200 ELSE 0),
                    PutBinary(eh2 + 15, 1, IF fs.eh2bad = 4 THEN 200 ELSE 1),
                    PutBinary(eh2 + 16, 4, fs.nts),
                    PutBinary(eh2 + 28, 1, IF fs.eh2bad = 5 THEN 200 ELSE 0),
                    PutBinary(eh2 + 30, 2, fs.ndc),
                    CoeffBlocksBytes(fs) >>)

\* the first byte of the trace blocks of fs
TraceRegionStart(fs) == 32 * (2 + Len(fs.rus) + fs.neh + fs.nxh)

\* the length of trace block b
BlockLen(b) == 20 + 32 * b.ntb + 4 * b.npts

RECURSIVE BlockStart(_, _)
\* the first byte of the k-th trace block of fs
BlockStart(fs, k) ==
    IF k = 1 THEN TraceRegionStart(fs)
    ELSE BlockStart(fs, k - 1) + BlockLen(fs.blocks[k - 1])

\* sample j of the k-th block: a positive single whose bytes name it
SampleBytes(k, j) == <<64 + j, 0, k, j>>

\* the bytes of trace block b, the k-th of the file, written at p: the fields
\* of the extension blocks it holds, then its samples
BlockBytes(b, k, start) ==
    Bind(start, LAMBDA p :
    LET In(n, m) == IF b.ntb >= n THEN m ELSE << >>
        data == p + 20 + 32 * b.ntb
    IN  MergeAll(<<
          PutBinary(p + 9, 1, b.ntb),
          In(1, PutBinary(p + 20, 3, b.net)),
          In(1, PutBinary(p + 23, 3, b.sta)),
          In(1, PutBinary(p + 26, 1, b.loc)),
          In(1, PutBinary(p + 27, 3, b.npts)),
          In(1, PutBinary(p + 40, 1, b.comp)),
          In(2, PutBinary(p + 52 + 29, 1, IF b.bad = 2 THEN 200 ELSE 1)),
          In(3, PutBinary(p + 84, 8, b.st)),
          In(4, PutBinary(p + 116 + 9, 1, IF b.bad = 3 THEN 200 ELSE 0)),
          In(4, PutBinary(p + 116 + 10, 1, IF b.bad = 4 THEN 0 ELSE 8)),
          In(5, PutBinary(p + 148 + 29, 1, IF b.bad = 5 THEN 0 ELSE 1)),
          In(8, PutBinary(p + 244 + 24, 4, IF b.bad = 8 THEN 200 ELSE 0)),
          In(9, PutBinary(p + 276, 4, IF b.bad = 9 THEN 200 ELSE 0)),
          MergeAll([j \in 1..b.npts |->
                      [o \in (data + 4 * (j - 1))..(data + 4 * (j - 1) + 3) |->
                          SampleBytes(k, j)[o - (data + 4 * (j - 1)) + 1]]]) >>))

\* the length of the whole file of fs
FullLen(fs) ==
    IF fs.blocks = << >> THEN TraceRegionStart(fs)
    ELSE BlockStart(fs, Len(fs.blocks)) + BlockLen(fs.blocks[Len(fs.blocks)])

\* the byte source of fs: cut to fs.cut bytes when fs.cut >= 0, and failing
\* on every read when fs.io
MakeFile(fs) ==
    Bind(IF fs.cut >= 0 /\ fs.cut < FullLen(fs) THEN fs.cut ELSE FullLen(fs),
         LAMBDA len :
        Bind(HeaderBytes(fs) @@
             MergeAll([k \in 1..Len(fs.blocks) |->
                         BlockBytes(fs.blocks[k], k, BlockStart(fs, k))]),
             LAMBDA all :
            [len |-> len,
             nz |-> [o \in {x \in DOMAIN all : x < len /\ all[x] # 0} |-> all[o]],
             io |-> fs.io]))

---------------------------------------------------------------------------
(* The inputs: file descriptions and options.                              *)

\* one sampling interval at 250 Hz, in microseconds
Dt == Delta(SamplingRate(64))

\* the start times written to trace blocks: 0, and the times at which a
\* block of two samples that follows another one starts (2 * Dt apart)
StartTimes == {0, 2 * Dt, 4 * Dt}

\* a well-formed trace block starting at time st
Block(st) ==
    [ntb |-> 3, npts |-> 2, st |-> st, comp |-> 2, net |-> 1, sta |-> 1,
     loc |-> 0, bad |-> 0]

\* a well-formed file with the given channel sets, time slices and blocks
GoodSpec(rus, nts, blocks) ==
    [sfc |-> 8058, man |-> 20, ver |-> 262, bsi |-> 64, rus |-> rus, nts |-> nts,
     neh |-> 3, nxh |-> 0, eh2bad |-> 0, ndc |-> 0, blocks |-> blocks,
     cut |-> -1, io |-> FALSE]

\* trace blocks that differ from a well-formed one in a few fields
BlockSet ==
    {[Block(st) EXCEPT !.npts = n] : st \in StartTimes, n \in 0..MaxNpts}
    \cup {[Block(st) EXCEPT !.comp = c] : st \in {0, 2 * Dt}, c \in {3, 4, 5, 12}}
    \cup {[Block(0) EXCEPT !.ntb = t, !.bad = b] :
             t \in {5, 10, 11}, b \in {0, 2, 3, 4, 5}}
    \cup {[Block(2 * Dt) EXCEPT !.ntb = t, !.bad = b] : t \in {10, 11}, b \in {8, 9}}

\* empty trace blocks with fewer than the three extension blocks that hold
\* the fields _make_stats reads
ShortBlockSet == {[Block(0) EXCEPT !.ntb = t, !.npts = 0] : t \in 0..2}

\* the blocks that follow the first one in a file of several blocks
NextBlockSet ==
    {Block(2 * Dt), Block(2 * Dt + 1), Block(4 * Dt), [Block(2 * Dt) EXCEPT !.npts = 1],
     [Block(2 * Dt) EXCEPT !.ntb = 11], [Block(2 * Dt) EXCEPT !.ntb = 10, !.bad = 5],
     [Block(0) EXCEPT !.comp = 3], [Block(2 * Dt) EXCEPT !.net = 2]}

\* files whose identification fields, length or readability vary
ProbeSpecs ==
    {[GoodSpec(<<1>>, 1, <<Block(0)>>) EXCEPT !.sfc = s, !.man = m, !.ver = v] :
        s \in {8058, 8057}, m \in {20, 21}, v \in {262, 261}}
    \cup {[GoodSpec(<<1>>, 1, <<Block(0)>>) EXCEPT !.cut = c, !.ver = v] :
             c \in {0, 3, 10, 17, 43, 44, 100, 270}, v \in {262, 261}}
    \cup {[GoodSpec(<<1>>, 1, <<Block(0)>>) EXCEPT !.io = TRUE, !.ver = v] :
             v \in {262, 261}}

\* files whose initial headers vary: channel sets, time slices, header counts,
\* enumerated codes of extended header 2, base scan interval
HeaderSpecs ==
    {GoodSpec(rus, nts, [k \in 1..n |-> Block(2 * Dt * (k - 1))]) :
        rus \in {<<1>>, <<1, 1>>, <<1, 2>>, <<2, 1, 2>>}, nts \in 0..MaxSlices,
        n \in 0..(2 * MaxSlices)}
    \cup {[GoodSpec(<<1>>, 1, <<Block(0)>>) EXCEPT !.eh2bad = b, !.nxh = x, !.bsi = r] :
             b \in 0..5, x \in 0..1, r \in {64, 32}}
    \cup {[GoodSpec(<<1>>, 1, <<Block(0)>>) EXCEPT !.bsi = r] :
             r \in {0, 8, 16, 32, 63, 64, 65, 255}}

\* files of one or two trace blocks that vary
WalkSpecs ==
    {GoodSpec(<<1>>, 1, <<b>>) : b \in BlockSet}
    \cup {GoodSpec(<<1>>, 2, <<b, c>>) : b \in BlockSet, c \in NextBlockSet}
    \cup {GoodSpec(<<1>>, nts, <<b, Block(2 * Dt)>>) : b \in ShortBlockSet, nts \in 1..2}

\* single-block files of every base scan interval (byte 22)
RateSpecs == {[GoodSpec(<<1>>, 1, <<Block(0)>>) EXCEPT !.bsi = r] : r \in 0..255}

\* None, for a start time or an end time that the caller leaves out
None == -1

\* the wall clock of the call, later than every block
Now == 250 * Dt

\* the options of a call
Options(windows) ==
    {[headonly |-> h, starttime |-> w[1], endtime |-> w[2], merge |-> m,
      contacts_north |-> c, details |-> d] :
        h \in BOOLEAN, m \in BOOLEAN, c \in BOOLEAN, d \in BOOLEAN, w \in windows}

\* keys = ['network', 'station', 'channel', 'starttime'] of Stream.sort
DefaultKeys == <<"network", "station", "channel", "starttime">>

\* before any call returned: the options given and no outcome
NoCall(given) == [given |-> given, pc |-> "none", err |-> "none", traces |-> << >>]

\* the time windows of the calls
Windows == {<<None, None>>, <<0, 2 * Dt>>, <<2 * Dt, 4 * Dt>>, <<2 * Dt, None>>}

---------------------------------------------------------------------------
(* The calls.                                                              *)

\* before the call: a byte source and the options of the call
InitWith(specs, options) ==
    /\ \E fs \in specs : file = MakeFile(fs)
    /\ opts \in options
    /\ pc = "start"
    /\ idx = 0
    /\ pos = 0
    /\ nbr_records = 0
    /\ traces = << >>
    /\ walked = << >>
    /\ err = "none"
    /\ probe = "none"
    /\ merge_in = << >>
    /\ merge_arg = << >>
    /\ now = Now
    /\ earlier = NoCall(opts)
    /\ keys = DefaultKeys
    /\ headers = [err |-> "none"]

Init == InitWith(ProbeSpecs \cup HeaderSpecs \cup WalkSpecs, Options(Windows))

\* calls on single-block files of every base scan interval
InitRate == InitWith(RateSpecs, Options({<<None, None>>}))

\* _is_rg16 on the byte source
IsRg16 ==
    /\ pc = "start"
    /\ \E r \in {InternalIsRg16(file)} :
         probe' = IF r.err # "ok" THEN r.err
                  ELSE IF r.value THEN "True" ELSE "False"
    /\ pc' = "probed"
    /\ UNCHANGED <<file, opts, idx, pos, nbr_records, traces, walked, err, merge_in,
                   merge_arg, now, earlier, keys,
                   headers>>

\* the call fails: the exception leaves read_rg16 and no list is returned
Raise(e) ==
    /\ pc' = "error"
    /\ err' = e
    /\ traces' = << >>

\* _read_rg16 and the head of _internal_read_rg16: the defaults of the
\* window, the header counts, the record count and the first block's offset
ReadRg16 ==
    /\ pc = "start"
    /\ opts' = [opts EXCEPT
                  !.starttime = IF opts.starttime = None THEN 0 ELSE opts.starttime,
                  !.endtime = IF opts.endtime = None THEN now ELSE opts.endtime]
    /\ \E h \in {CmpNbrHeaders(file)}, r \in {CmpNbrRecords(file)} :
         \E e \in {FirstErr(<<h.err, r.err>>)} :
           IF e # "ok"
           THEN Raise(e) /\ UNCHANGED <<idx, pos, nbr_records>>
           ELSE /\ pc' = "walk"
                /\ nbr_records' = r.nbr_records
                /\ pos' = 32 * (2 + h.nbr_channel_set_headers +
                                h.nbr_extended_headers + h.nbr_external_headers)
                /\ idx' = 0
                /\ traces' = << >>
                /\ err' = "none"
    /\ UNCHANGED <<file, walked, probe, merge_in, merge_arg, now, earlier, keys,
                   headers>>

\* the test of the time window with an upper bound that is not strict
InWindowClosed(starttime, endtime, starttime_block) ==
    starttime <= starttime_block /\ starttime_block <= endtime

\* the test of the time window in the loop of _internal_read_rg16
InWindow(starttime, endtime, starttime_block) ==
    starttime <= starttime_block /\ starttime_block < endtime

\* the trace of the block at the cursor when the window keeps it
BlockTrace(keep) ==
    IF keep
    THEN MakeTrace(file, pos, opts.headonly, opts.contacts_north, opts.details)
    ELSE [err |-> "ok"]

\* one turn of the loop of _internal_read_rg16
WalkBlock ==
    /\ pc = "walk"
    /\ idx < nbr_records
    /\ \E j \in {CmpJump(file, pos)},
          stb \in {RunSteps(file, << Bin("starttime_block", pos + 20 + 2 * 32, 8) >>)},
          starttime_block \in {ReadBinary(file, pos + 20 + 2 * 32, 8)} :
         \E keep \in {InWindow(opts.starttime, opts.endtime, starttime_block)} :
           \E t \in {BlockTrace(keep)} :
             \E e \in {FirstErr(<<j.err, stb, t.err>>)} :
               IF e # "ok"
               THEN Raise(e) /\ UNCHANGED <<idx, pos, walked>>
               ELSE /\ traces' = IF keep THEN Append(traces, t.trace) ELSE traces
                    /\ pos' = pos + j.nbr_bytes_trace_block
                    /\ idx' = idx + 1
                    /\ walked' = Append(walked,
                                    [pos |-> pos,
                                     ntb |-> ReadBinary(file, pos + 9, 1),
                                     npts |-> ReadBinary(file, pos + 27, 3),
                                     start |-> starttime_block,
                                     kept |-> keep])
                    /\ UNCHANGED <<pc, err>>
    /\ UNCHANGED <<file, opts, nbr_records, probe, merge_in, merge_arg, now, earlier,
                   keys, headers>>

\* the end of _internal_read_rg16: the merge, when asked for, and the Stream
Finish ==
    /\ pc = "walk"
    /\ idx = nbr_records
    /\ IF opts.merge
       THEN /\ merge_in' = traces
            /\ merge_arg' = QuickMergeArg(traces)
            /\ \E m \in {QuickMerge(traces)} :
                 IF m.err # "ok" THEN Raise(m.err)
                 ELSE pc' = "done" /\ traces' = m.out /\ UNCHANGED err
       ELSE pc' = "done" /\ UNCHANGED <<traces, err, merge_in, merge_arg>>
    /\ UNCHANGED <<file, opts, idx, pos, nbr_records, walked, probe, now, earlier, keys,
                   headers>>

Next == IsRg16 \/ ReadRg16 \/ WalkBlock \/ Finish

Spec == Init /\ [][Next]_vars

SpecRate == InitRate /\ [][Next]_vars

---------------------------------------------------------------------------
(* Calls of _quick_merge on lists of traces given directly.                *)

\* the longest list of traces given to _quick_merge
MaxTraces == 3

\* the traces of the lists: two samples each, of component 2 or 3, starting
\* at one of the start times; plus header-only traces (no data, float64) and
\* a trace of another sampling rate
MergeChoices ==
    {[comp |-> c, st |-> st, sr |-> 250, headonly |-> FALSE] :
        c \in {2, 3}, st \in StartTimes}
    \cup {[comp |-> 2, st |-> st, sr |-> 250, headonly |-> TRUE] : st \in {0, 2 * Dt}}
    \cup {[comp |-> 2, st |-> 2 * Dt, sr |-> 500, headonly |-> FALSE]}

\* the trace of choice c, the k-th of its list, as _make_trace builds traces
MergeTrace(c, k) ==
    [data |-> IF c.headonly THEN << >> ELSE [j \in 1..2 |-> SampleBytes(k, j)],
     dtype |-> IF c.headonly THEN "float64" ELSE ">f4",
     stats |-> [starttime |-> c.st,
                endtime |-> EndTime(c.st, 2, c.sr),
                sampling_rate |-> c.sr,
                npts |-> 2,
                network |-> Digits(1),
                station |-> Digits(1),
                location |-> Digits(0),
                channel |-> <<BandMap[c.sr], "P">> \o Digits(c.comp)]]

\* the lists of at most MaxTraces traces
MergeLists ==
    UNION {{[k \in 1..n |-> MergeTrace(cs[k], k)] : cs \in [1..n -> MergeChoices]} :
              n \in 0..MaxTraces}

\* before a call of _quick_merge on a list
InitMerge ==
    /\ file = MakeFile(GoodSpec(<<1>>, 1, <<Block(0)>>))
    /\ opts = [headonly |-> FALSE, starttime |-> None, endtime |-> None,
               merge |-> TRUE, contacts_north |-> FALSE, details |-> FALSE]
    /\ pc = "merge"
    /\ idx = 0
    /\ pos = 0
    /\ nbr_records = 0
    /\ traces \in MergeLists
    /\ walked = << >>
    /\ err = "none"
    /\ probe = "none"
    /\ merge_in = << >>
    /\ merge_arg = << >>
    /\ now = Now
    /\ earlier = NoCall(opts)
    /\ keys = DefaultKeys
    /\ headers = [err |-> "none"]

\* _quick_merge on the list in traces; to: the position after the call
QuickMergeStep(to) ==
    /\ merge_in' = traces
    /\ merge_arg' = QuickMergeArg(traces)
    /\ \E m \in {QuickMerge(traces)} :
         IF m.err # "ok" THEN Raise(m.err)
         ELSE pc' = to /\ traces' = m.out /\ UNCHANGED err
    /\ UNCHANGED <<file, opts, idx, pos, nbr_records, walked, probe, now, earlier, keys,
                   headers>>

\* _quick_merge on a list
QuickMergeCall ==
    /\ pc = "merge"
    /\ QuickMergeStep("merged")

\* _quick_merge on the list a call of _quick_merge returned
QuickMergeAgain ==
    /\ pc = "merged"
    /\ QuickMergeStep("merged_again")

NextMerge == QuickMergeCall \/ QuickMergeAgain

SpecMerge == InitMerge /\ [][NextMerge]_vars

---------------------------------------------------------------------------
(* Two read_rg16 calls on one byte source with the same options, made at   *)
(* two wall-clock times.                                                   *)

\* the wall-clock times of the calls: between the start times of the blocks,
\* and later than every block
ClockTimes == {Dt, 3 * Dt, Now}

\* files of 1..MaxSlices contiguous blocks
TwiceSpecs ==
    {GoodSpec(<<1>>, n, [k \in 1..n |-> Block(2 * Dt * (k - 1))]) : n \in 1..MaxSlices}

InitTwice ==
    /\ \E fs \in TwiceSpecs : file = MakeFile(fs)
    /\ opts \in Options(Windows)
    /\ pc = "start"
    /\ idx = 0
    /\ pos = 0
    /\ nbr_records = 0
    /\ traces = << >>
    /\ walked = << >>
    /\ err = "none"
    /\ probe = "none"
    /\ merge_in = << >>
    /\ merge_arg = << >>
    /\ now \in ClockTimes
    /\ earlier = NoCall(opts)
    /\ keys = DefaultKeys
    /\ headers = [err |-> "none"]

\* the call is over; the same call is made again, at the same or a later
\* wall-clock time
CallAgain ==
    /\ pc \in {"done", "error"}
    /\ earlier.pc = "none"
    /\ earlier' = [earlier EXCEPT !.pc = pc, !.err = err, !.traces = traces]
    /\ opts' = earlier.given
    /\ \E t \in ClockTimes : t >= now /\ now' = t
    /\ pc' = "start"
    /\ idx' = 0
    /\ pos' = 0
    /\ nbr_records' = 0
    /\ traces' = << >>
    /\ walked' = << >>
    /\ err' = "none"
    /\ UNCHANGED <<file, probe, merge_in, merge_arg, keys, headers>>

NextTwice == ReadRg16 \/ WalkBlock \/ Finish \/ CallAgain

SpecTwice == InitTwice /\ [][NextTwice]_vars

---------------------------------------------------------------------------
(* Stream.sort of obspy.core: calls with the default keys on any streams.  *)

\* largest number of traces of a sorted stream
MaxSortTraces == 2

\* keys.reverse(): the list reversed in place
Reverse(s) == [i \in 1..Len(s) |-> s[Len(s) + 1 - i]]

\* x.stats[key] of trace a is less than that of trace b
KeyLess(key, a, b) ==
    IF key = "starttime" THEN a.stats.starttime < b.stats.starttime
    ELSE StrLess(a.stats[key], b.stats[key])

\* self.traces.sort(key = lambda x: x.stats[key]): traces that compare
\* equal keep their order
SortOn(trs, key) ==
    Bind([k \in 1..Len(trs) |->
             1 + Cardinality({j \in 1..Len(trs) :
                                 \/ KeyLess(key, trs[j], trs[k])
                                 \/ (~KeyLess(key, trs[k], trs[j]) /\ j < k)})],
         LAMBDA rank :
            [r \in 1..Len(trs) |-> trs[CHOOSE k \in 1..Len(trs) : rank[k] = r]])

RECURSIVE SortLoop(_, _)
\* for _i in keys: self.traces.sort(...)
SortLoop(trs, ks) ==
    IF ks = << >> THEN trs ELSE SortLoop(SortOn(trs, Head(ks)), Tail(ks))

\* the traces of the streams: two networks, two channels, three start times
SortTraces ==
    {[data |-> << >>, dtype |-> "float64",
      stats |-> [network |-> Digits(n), station |-> Digits(1),
                 channel |-> <<"D", "P">> \o Digits(c), starttime |-> st]] :
        n \in 1..2, c \in 2..3, st \in StartTimes}

\* the streams: every list of up to MaxSortTraces traces
SortStreams == UNION {[1..n -> SortTraces] : n \in 0..MaxSortTraces}

InitSort ==
    /\ file = MakeFile(GoodSpec(<<1>>, 1, <<Block(0)>>))
    /\ opts = [headonly |-> FALSE, starttime |-> None, endtime |-> None,
               merge |-> FALSE, contacts_north |-> FALSE, details |-> FALSE]
    /\ pc = "sort"
    /\ idx = 0
    /\ pos = 0
    /\ nbr_records = 0
    /\ traces = << >>
    /\ walked = << >>
    /\ err = "none"
    /\ probe = "none"
    /\ merge_in = << >>
    /\ merge_arg = << >>
    /\ now = Now
    /\ earlier = NoCall(opts)
    /\ keys = DefaultKeys
    /\ headers = [err |-> "none"]

\* stream.sort() on some stream, with the default keys; to: the position
\* after the call
SortStep(to) ==
    /\ \E st \in SortStreams :
         /\ keys' = Reverse(keys)
         /\ traces' = SortLoop(st, Reverse(keys))
    /\ pc' = to
    /\ UNCHANGED <<file, opts, idx, pos, nbr_records, walked, err, probe, merge_in,
                   merge_arg, now, earlier, headers>>

\* the first call of Stream.sort in the process
StreamSort ==
    /\ pc = "sort"
    /\ SortStep("sorted")

\* the next call of Stream.sort, on any stream
StreamSortAgain ==
    /\ pc = "sorted"
    /\ SortStep("sorted_again")

NextSort == StreamSort \/ StreamSortAgain

SpecSort == InitSort /\ [][NextSort]_vars

---------------------------------------------------------------------------
(* The initial-header decoder on its own: read_initial_headers on files    *)
(* whose count of extended headers and count of decimation filter          *)
(* coefficients vary.                                                      *)

\* largest nbr_extended_headers written to general header 2
MaxExtended == 6
\* largest number_decimation_filter_coefficient written to extended header 2
MaxCoeff == 17

\* one-block files of one or two channel sets with every count of extended
\* headers (the three fixed blocks at least) and of coefficients
CoeffSpecs ==
    {[GoodSpec(rus, 1, <<Block(0)>>) EXCEPT !.neh = n, !.ndc = c] :
        rus \in {<<1>>, <<1, 2>>}, n \in 3..MaxExtended, c \in 0..MaxCoeff}

InitHeaders ==
    /\ \E fs \in CoeffSpecs : file = MakeFile(fs)
    /\ opts = [headonly |-> FALSE, starttime |-> None, endtime |-> None,
               merge |-> FALSE, contacts_north |-> FALSE, details |-> TRUE]
    /\ pc = "headers"
    /\ idx = 0
    /\ pos = 0
    /\ nbr_records = 0
    /\ traces = << >>
    /\ walked = << >>
    /\ err = "none"
    /\ probe = "none"
    /\ merge_in = << >>
    /\ merge_arg = << >>
    /\ now = Now
    /\ earlier = NoCall(opts)
    /\ keys = DefaultKeys
    /\ headers = [err |-> "none"]

\* _read_initial_headers on the byte source
ReadInitialHeaders ==
    /\ pc = "headers"
    /\ headers' = InternalReadInitialHeaders(file)
    /\ pc' = "headers_read"
    /\ UNCHANGED <<file, opts, idx, pos, nbr_records, traces, walked, err, probe,
                   merge_in, merge_arg, now, earlier, keys>>

NextHeaders == ReadInitialHeaders

SpecHeaders == InitHeaders /\ [][NextHeaders]_vars

---------------------------------------------------------------------------
(* What the properties below read from the byte source itself.             *)

\* the call walks, or has returned the list the walk built
Unmerged == pc = "walk" \/ (pc = "done" /\ ~opts.merge)

\* the start time, sample count and extension block count written in the
\* k-th block the walk examined
WalkedStart(k) == ReadBinary(file, walked[k].pos + 20 + 64, 8)

WalkedNpts(k) == ReadBinary(file, walked[k].pos + 27, 3)

WalkedNtb(k) == Byte(file, walked[k].pos + 9)

\* the window of the call holds the start time of the k-th examined block
WalkedInWindow(k) ==
    opts.starttime <= WalkedStart(k) /\ WalkedStart(k) < opts.endtime

\* the examined blocks whose start time the window holds, and the one among
\* them that is the j-th in file order
WalkedKept == {k \in 1..Len(walked) : WalkedInWindow(k)}

KeptBlock(j) ==
    CHOOSE k \in WalkedKept : Cardinality({i \in WalkedKept : i <= k}) = j

---------------------------------------------------------------------------
(* C1 *)

\* C1: a trace block is decoded and appended to the output if and only if
\* starttime <= starttime_block < endtime, where starttime_block is the 8-byte
\* value at pos+20+64: the list built by the walk holds exactly the blocks
\* whose start time is in the window, in file order, for every file and window.
C1_WindowFilter ==
    Unmerged =>
        /\ Len(traces) = Cardinality(WalkedKept)
        /\ \A j \in 1..Len(traces) :
             /\ traces[j].stats.starttime = WalkedStart(KeptBlock(j))
             /\ traces[j].stats.npts = WalkedNpts(KeptBlock(j))

\* a returned list that kept a block starting exactly at the lower bound and
\* dropped a block starting exactly at the upper bound
C1_Witness ==
    /\ pc = "done" /\ ~opts.merge
    /\ Len(walked) = 2 /\ Len(traces) = 1
    /\ WalkedStart(1) = opts.starttime
    /\ WalkedStart(2) = opts.endtime
    /\ traces[1].stats.starttime = opts.starttime

---------------------------------------------------------------------------
(* C2 *)

\* the offset of the first trace block, from the three header counts
RegionStart ==
    32 * (2 + ReadBcd(file, 28, 2, TRUE) + ReadBinary(file, 37, 2) +
          ReadBinary(file, 39, 3))

RECURSIVE SumBlockLen(_)
\* the sum of block_len over the first k examined blocks
SumBlockLen(k) ==
    IF k = 0 THEN 0
    ELSE SumBlockLen(k - 1) + 20 + 32 * WalkedNtb(k) + 4 * WalkedNpts(k)

\* C2: the walker examines exactly nbr_records blocks; the i-th is read at
\* 32*(2 + nbr_channel_set + nbr_extended_headers + nbr_external_headers) plus
\* the sum of 20 + 32*nbr_trace_extension_blocks + 4*nbr_sample_trace over the
\* blocks before it, and the cursor advances by that length for every block,
\* kept or filtered out.
C2_WalkerOffsets ==
    pc \in {"walk", "done"} =>
        /\ Len(walked) = idx
        /\ idx <= nbr_records
        /\ pc = "done" => Len(walked) = nbr_records
        /\ \A k \in 1..Len(walked) :
             walked[k].pos = RegionStart + SumBlockLen(k - 1)
        /\ pos = RegionStart + SumBlockLen(Len(walked))

\* a finished walk of two blocks whose first block the window filtered out
\* and whose second block was decoded at the offset after the first
C2_Witness ==
    /\ pc = "done" /\ ~opts.merge
    /\ nbr_records = 2 /\ Len(walked) = 2
    /\ ~WalkedInWindow(1) /\ WalkedInWindow(2)
    /\ Len(traces) = 1
    /\ walked[2].pos = RegionStart + 20 + 32 * WalkedNtb(1) + 4 * WalkedNpts(1)

---------------------------------------------------------------------------
(* C3 *)

\* the RU channel numbers written in the channel-set descriptors
RuChannelNumbers ==
    {Byte(file, 64 + 32 * (k - 1) + 30) : k \in 1..ReadBcd(file, 28, 2, TRUE)}

\* nbr_time_slices as written in extended header 2
NbrTimeSlices == ReadBinary(file, 64 + 32 * ReadBcd(file, 28, 2, TRUE) + 32 + 16, 4)

\* C3: nbr_records equals nbr_time_slices of extended header 2 times the number
\* of distinct RU_channel_number values over all channel-set descriptors;
\* descriptors that repeat an RU channel number do not increase the count.
C3_RecordCount ==
    pc \in {"walk", "done"} =>
        nbr_records = NbrTimeSlices * Cardinality(RuChannelNumbers)

\* three descriptors of which two repeat an RU channel number, two time slices
C3_Witness ==
    /\ pc = "walk"
    /\ ReadBcd(file, 28, 2, TRUE) = 3
    /\ Cardinality(RuChannelNumbers) = 2
    /\ NbrTimeSlices = 2
    /\ nbr_records = 4

---------------------------------------------------------------------------
(* C4 *)

\* the three reads of the probe succeed: the source is readable and holds
\* the bytes 2..3, 16 and 42..43
ProbeReadable == ~file.io /\ file.len >= 44

\* C4: when the three probe reads succeed, is_rg16 returns true if and only
\* if sample_format_code (BCD, byte 2, 2 bytes) = 8058 and manufacturer_code
\* (BCD, byte 16, 1 byte) = 20 and version (binary, byte 42, 2 bytes) = 262,
\* and false when any one differs.
C4_ProbeIff ==
    (pc = "probed" /\ ProbeReadable) =>
        /\ probe \in {"True", "False"}
        /\ probe = "True" <=>
             /\ ReadBcd(file, 2, 4, TRUE) = 8058
             /\ ReadBcd(file, 16, 2, TRUE) = 20
             /\ ReadBinary(file, 42, 2) = 262

\* a probe that answered false for a source in which only the manufacturer
\* code differs
C4_Witness ==
    /\ pc = "probed" /\ ProbeReadable
    /\ probe = "False"
    /\ ReadBcd(file, 2, 4, TRUE) = 8058
    /\ ReadBcd(file, 16, 2, TRUE) # 20
    /\ ReadBinary(file, 42, 2) = 262

---------------------------------------------------------------------------
(* C5 *)

\* the call was made with the default value of every option
DefaultCall ==
    /\ ~opts.headonly /\ ~opts.merge /\ ~opts.contacts_north /\ ~opts.details
    /\ opts.starttime = 0 /\ opts.endtime = Now

\* C5: is_rg16(source) is true if and only if read_rg16(source) does not
\* raise NotRg16; read_rg16 rejects every source whose version is not 262,
\* whose manufacturer code is not 20 or whose sample format code is not 8058
\* instead of decoding it: a call that returns a stream was made on a source
\* for which is_rg16 is true.
C5_ReadRejectsNotRg16 ==
    (pc = "done" /\ DefaultCall) => InternalIsRg16(file).value

---------------------------------------------------------------------------
(* C6 *)

\* C6: is_rg16 never raises: a truncated source and an I/O failure of the
\* byte source are both swallowed and answered by false.
C6_ProbeNeverRaises ==
    pc = "probed" => probe \in {"True", "False"}

---------------------------------------------------------------------------
(* C7 *)

\* C7: if any walked trace block has nbr_trace_extension_blocks (byte pos+9)
\* greater than 10 the whole call fails, for every combination of options:
\* a call that returns has walked only blocks of at most 10 extension blocks.
C7_MoreThanTenBlocksFails ==
    pc = "done" => \A k \in 1..Len(walked) : WalkedNtb(k) <= 10

---------------------------------------------------------------------------
(* C8 *)

\* the enumerated fields of extended header 2: name, offset in the block,
\* codes of the legend
InitEnums ==
    { <<"clock_stop_method", 12, 0..3>>,
      <<"frequency_drift", 13, 0..1>>,
      <<"oscillator_type", 14, 0..4>>,
      <<"data_collection_method", 15, 0..2>>,
      <<"data_decimation", 28, 0..1>> }

\* the enumerated fields of the trace extension blocks: name, block number,
\* offset in the block, width, codes of the legend
TraceEnums ==
    { <<"source_of_final_shot_info", 2, 29, 1, 0..3>>,
      <<"energy_source_type", 2, 30, 1, 0..3>>,
      <<"trace_clipped_flag", 4, 9, 1, 0..2>>,
      <<"record_type_code", 4, 10, 1, {2, 8}>>,
      <<"shot_status_flag", 4, 11, 1, 0..2>>,
      <<"source_of_final_receiver_info", 5, 29, 1, 1..11>>,
      <<"preamp_path", 8, 24, 4, 0..12>>,
      <<"test_oscillator_signal_type", 8, 28, 4, 0..4>>,
      <<"test_signal_generator_signal_type", 9, 0, 4, 0..11>> }

\* the code written in the source for an enumerated field
InitEnumCode(e) ==
    ReadBinary(file, 64 + 32 * ReadBcd(file, 28, 2, TRUE) + 32 + e[2], 1)

TraceEnumCode(p, e) == ReadBinary(file, p + 20 + 32 * (e[2] - 1) + e[3], e[4])

\* an enumerated code of extended header 2 is not in its legend
BadInitEnum == \E e \in InitEnums : InitEnumCode(e) \notin e[3]

\* an enumerated code of a present extension block of the trace block at p
\* is not in its legend
BadTraceEnum(p) ==
    \E e \in TraceEnums : e[2] <= Byte(file, p + 9) /\ TraceEnumCode(p, e) \notin e[5]

---------------------------------------------------------------------------
(* C9 *)

\* C9: every trace produced by the decoder has
\* end_time = start_time + (npts - 1) / sampling_rate (times in microseconds),
\* where start_time is the 8-byte count at pos+20+64 and npts the 3-byte
\* binary at pos+27; this includes npts = 0 and npts = 1.
C9_EndTime ==
    \A j \in 1..Len(traces) :
        LET s == traces[j].stats
        IN  /\ s.sampling_rate * (s.endtime - s.starttime) = (s.npts - 1) * 1000000
            /\ Unmerged =>
                 /\ s.starttime = WalkedStart(KeptBlock(j))
                 /\ s.npts = WalkedNpts(KeptBlock(j))

\* a returned list with a trace of no sample, which ends one sample interval
\* before it starts, and a trace of one sample, which ends when it starts
C9_Witness ==
    /\ pc = "done" /\ ~opts.merge
    /\ \E j \in 1..Len(traces) :
         /\ traces[j].stats.npts = 0
         /\ traces[j].stats.endtime < traces[j].stats.starttime
    /\ \E j \in 1..Len(traces) :
         /\ traces[j].stats.npts = 1
         /\ traces[j].stats.endtime = traces[j].stats.starttime

---------------------------------------------------------------------------
(* C10 *)

\* C10: for every base_scan_interval (byte 22, 0..255) a decode either fails
\* or yields traces whose sampling_rate is one of 250, 500, 1000, 2000 and is
\* int(1000 / (base_scan_interval / 16)); the band code is 'G' for 2000 and
\* 1000 and 'D' for 500 and 250.
C10_SamplingRate ==
    \A j \in 1..Len(traces) :
        LET s == traces[j].stats
            bsi == Byte(file, 22)
        IN  /\ s.sampling_rate \in {250, 500, 1000, 2000}
            /\ bsi > 0
            /\ s.sampling_rate * bsi <= 16000
            /\ 16000 < (s.sampling_rate + 1) * bsi
            /\ s.sampling_rate \in {2000, 1000} => s.channel[1] = "G"
            /\ s.sampling_rate \in {500, 250} => s.channel[1] = "D"

\* a returned trace of 500 samples per second with band code D
C10_Witness ==
    /\ pc = "done"
    /\ Len(traces) = 1
    /\ Byte(file, 22) = 32
    /\ traces[1].stats.sampling_rate = 500
    /\ traces[1].stats.channel[1] = "D"

---------------------------------------------------------------------------
(* C11 *)

RECURSIVE DecValue(_)
\* the number a sequence of decimal digit characters writes
DecValue(str) ==
    IF str = << >> THEN 0
    ELSE DecValue(SubSeq(str, 1, Len(str) - 1)) * 10 + (Ord(str[Len(str)]) - 48)

\* the component byte (pos+40) of the block the j-th trace was decoded from
KeptComponent(j) == Byte(file, walked[KeptBlock(j)].pos + 40)

\* C11: the channel code of every trace is band code + 'P' + component; the
\* component is the decimal representation of the byte at pos+40 when
\* contacts_north is false and 'Z', 'N', 'E' for 2, 3, 4 when it is true;
\* under contacts_north a component outside {2,3,4} never yields a trace.
C11_ChannelCode ==
    Unmerged =>
        \A j \in 1..Len(traces) :
            LET chan == traces[j].stats.channel
                comp == SubSeq(chan, 3, Len(chan))
                c == KeptComponent(j)
            IN  /\ Len(chan) >= 3
                /\ chan[1] = (IF traces[j].stats.sampling_rate >= 1000 THEN "G" ELSE "D")
                /\ chan[2] = "P"
                /\ IF opts.contacts_north
                   THEN /\ c \in {2, 3, 4}
                        /\ comp = (IF c = 2 THEN <<"Z">>
                                   ELSE IF c = 3 THEN <<"N">> ELSE <<"E">>)
                   ELSE /\ \A k \in 1..Len(comp) : Ord(comp[k]) \in 48..57
                        /\ DecValue(comp) = c
                        /\ Len(comp) = 1 \/ comp[1] # "0"

\* a returned list with a trace of component 3 named N under contacts_north
C11_Witness ==
    /\ pc = "done" /\ ~opts.merge /\ opts.contacts_north
    /\ \E j \in 1..Len(traces) :
         /\ KeptComponent(j) = 3
         /\ traces[j].stats.channel = <<"D", "P", "N">>

---------------------------------------------------------------------------
(* C12 *)

\* the k-th sample as written in the block the j-th trace was decoded from
RawSample(j, k) ==
    LET p == walked[KeptBlock(j)].pos
        o == p + 20 + 32 * Byte(file, p + 9) + 4 * (k - 1)
    IN  <<Byte(file, o), Byte(file, o + 1), Byte(file, o + 2), Byte(file, o + 3)>>

\* the IEEE-754 single that is minus the single x: the sign bit differs
Minus(x) == <<IF x[1] >= 128 THEN x[1] - 128 ELSE x[1] + 128, x[2], x[3], x[4]>>

\* C12: a trace whose component maps to 'Z' under contacts_north=true has the
\* element-wise negation of the samples the block holds (which are the samples
\* decoded with contacts_north=false) and a channel code ending in 'Z'; traces
\* mapped to 'N' or 'E', and every trace decoded with contacts_north=false,
\* have the samples of the block unchanged.
C12_VerticalNegated ==
    (Unmerged /\ ~opts.headonly) =>
        \A j \in 1..Len(traces) :
            LET chan == traces[j].stats.channel
                isZ == opts.contacts_north /\ KeptComponent(j) = 2
            IN  /\ isZ <=> chan[Len(chan)] = "Z"
                /\ \A k \in 1..Len(traces[j].data) :
                     traces[j].data[k] =
                         IF isZ THEN Minus(RawSample(j, k)) ELSE RawSample(j, k)

\* a returned list under contacts_north with a Z trace of negated samples and
\* an N trace of unchanged samples
C12_Witness ==
    /\ pc = "done" /\ ~opts.merge /\ ~opts.headonly /\ opts.contacts_north
    /\ \E j \in 1..Len(traces) :
         /\ KeptComponent(j) = 2
         /\ Len(traces[j].data) > 0
         /\ traces[j].data[1] = Minus(RawSample(j, 1))
         /\ traces[j].data[1] # RawSample(j, 1)
    /\ \E j \in 1..Len(traces) :
         /\ KeptComponent(j) = 3
         /\ Len(traces[j].data) > 0
         /\ traces[j].data[1] = RawSample(j, 1)

---------------------------------------------------------------------------
(* C13 *)

\* C13: for every trace of a successful decode without merge, when headonly
\* is false trace.data has stats.npts samples, read from
\* pos + 20 + 32*nbr_trace_extension_blocks; when headonly is true trace.data
\* is empty while stats.npts still holds the sample count of the block.
C13_DataLength ==
    Unmerged =>
        \A j \in 1..Len(traces) :
            /\ traces[j].stats.npts = WalkedNpts(KeptBlock(j))
            /\ IF opts.headonly
               THEN traces[j].data = << >>
               ELSE /\ Len(traces[j].data) = traces[j].stats.npts
                    /\ \A k \in 1..Len(traces[j].data) :
                         traces[j].data[k] \in {RawSample(j, k), Minus(RawSample(j, k))}

\* a header-only trace that has no data and the sample count of its block
C13_Witness ==
    /\ pc = "done" /\ ~opts.merge /\ opts.headonly
    /\ \E j \in 1..Len(traces) :
         /\ traces[j].data = << >>
         /\ traces[j].stats.npts = 2
         /\ WalkedNpts(KeptBlock(j)) = 2

---------------------------------------------------------------------------
(* What the properties of the merger read: the list the call was given     *)
(* (merge_in) and the list it returned (traces).                           *)

\* a call of _quick_merge has returned a list
MergeReturned == pc \in {"merged", "merged_again"}

\* every trace given to the merger holds samples
AllData == \A k \in 1..Len(merge_in) : merge_in[k].data # << >>

\* the rows of the given list sorted by (id, starttime)
SortedIn == TraceListToRecArray(merge_in)

\* the samples of a trace; every sample of a given list is written once
SamplesOf(tr) == {tr.data[i] : i \in 1..Len(tr.data)}

\* the returned traces that hold every sample of trace tr
OutputsOf(tr) == {t \in 1..Len(traces) : SamplesOf(tr) \subseteq SamplesOf(traces[t])}

\* the bound on |start[i+1] - end[i]|: one sample interval plus 10^-6 s
MergeDiff == (1000000 \div merge_in[1].stats.sampling_rate) + 1

\* the places <<t, i>> of the samples of the returned traces
Places == UNION {{<<t, i>> : i \in 1..Len(traces[t].data)} : t \in 1..Len(traces)}

RECURSIVE SumNpts(_)
\* the sum of stats.npts over a list of traces
SumNpts(trs) ==
    IF trs = << >> THEN 0 ELSE trs[1].stats.npts + SumNpts(Tail(trs))

---------------------------------------------------------------------------
(* C14 *)

\* C14: after sorting by (trace_id, start_timestamp), row i and row i+1 are
\* placed in the same group (their samples are in the same output trace) if
\* and only if id[i+1] = id[i] and |start[i+1] - end[i]| <= 1/sampling_rate
\* + 10^-6; two same-id rows separated by a larger gap end up in different
\* output traces.
C14_Grouping ==
    (MergeReturned /\ AllData) =>
        \A i \in 1..(Len(SortedIn) - 1) :
            (OutputsOf(SortedIn[i].trace) \cap OutputsOf(SortedIn[i + 1].trace) # {})
            <=> /\ SortedIn[i + 1].id = SortedIn[i].id
                /\ Abs(SortedIn[i + 1].starttime - SortedIn[i].endtime) <= MergeDiff

---------------------------------------------------------------------------
(* C15 *)

\* C15: for every non-empty list accepted by the merger the sum of npts over
\* the output traces equals the sum of npts over the input traces, and every
\* input trace's samples appear in exactly one output trace.
C15_MergePreservation ==
    (MergeReturned /\ Len(merge_in) > 0) =>
        /\ SumNpts(traces) = SumNpts(merge_in)
        /\ \A k \in 1..Len(merge_in) :
             \A x \in SamplesOf(merge_in[k]) :
               Cardinality({p \in Places : traces[p[1]].data[p[2]] = x}) = 1

---------------------------------------------------------------------------
(* C16 *)

\* C16: applying the merger to its own output returns a list equal to that
\* output: same number of traces, same data, same metadata.
C16_MergeIdempotent ==
    pc = "merged_again" => traces = merge_in

---------------------------------------------------------------------------
(* C17 *)

\* the rows (in sorted order) whose samples the t-th returned trace holds
MembersOf(t) == {r \in 1..Len(SortedIn) : t \in OutputsOf(SortedIn[r].trace)}

\* the metadata that a change of npts leaves alone
Fixed(stats) == [k \in DOMAIN stats \ {"npts", "endtime"} |-> stats[k]]

\* C17: each output trace has samples equal to the concatenation, in
\* (id, starttime) sorted order, of the sample arrays of its group's members
\* and metadata equal to the first member's with npts set to the concatenated
\* length; its starttime and id are those of the group's first member, which
\* is the earliest of the group.
C17_MergedTrace ==
    (MergeReturned /\ AllData) =>
        \A t \in 1..Len(traces) :
            LET members == MembersOf(t)
                first == SortedIn[Min(members)].trace
                inorder == [m \in 1..Cardinality(members) |->
                               SortedIn[CHOOSE r \in members :
                                   Cardinality({q \in members : q < r}) = m - 1].trace.data]
            IN  /\ members # {}
                /\ traces[t].data = Flatten(inorder)
                /\ Fixed(traces[t].stats) = Fixed(first.stats)
                /\ traces[t].stats.npts = Len(traces[t].data)
                /\ TraceId(traces[t]) = TraceId(first)
                /\ traces[t].stats.starttime = first.stats.starttime
                /\ \A r \in members :
                     traces[t].stats.starttime <= SortedIn[r].starttime

---------------------------------------------------------------------------
(* C18 *)

\* the traces of the given list do not share one sampling rate, or do not
\* share one dtype
Heterogeneous ==
    \E a, b \in 1..Len(merge_in) :
        \/ merge_in[a].stats.sampling_rate # merge_in[b].stats.sampling_rate
        \/ merge_in[a].dtype # merge_in[b].dtype

\* C18: the merger fails and produces no output list whenever the input
\* traces do not all share one sampling rate or one sample dtype.
C18_HeterogeneousFails ==
    (pc \in {"merged", "merged_again", "error"} /\ Heterogeneous) =>
        /\ pc = "error"
        /\ err = "AssertionError"
        /\ traces = << >>

\* a failed call on a list of one sampling rate and two dtypes
C18_Witness ==
    /\ pc = "error" /\ err = "AssertionError"
    /\ Len(merge_in) = 2
    /\ merge_in[1].stats.sampling_rate = merge_in[2].stats.sampling_rate
    /\ merge_in[1].dtype # merge_in[2].dtype

---------------------------------------------------------------------------
(* C19 *)

\* the network, station, location and component written in the k-th examined
\* block
WalkedIdBytes(k) ==
    <<ReadBinary(file, walked[k].pos + 20, 3), ReadBinary(file, walked[k].pos + 23, 3),
      Byte(file, walked[k].pos + 26), Byte(file, walked[k].pos + 40)>>

\* the sample interval the general header gives, in microseconds
FileDelta == Delta(SamplingRate(Byte(file, 22)))

\* every block of the file was examined and kept, all blocks carry one channel
\* id, and each starts one sample interval after the end of the one before
ContiguousFile ==
    /\ nbr_records >= 1
    /\ Len(walked) = nbr_records
    /\ WalkedKept = 1..nbr_records
    /\ \A k \in 1..(nbr_records - 1) :
         /\ WalkedIdBytes(k + 1) = WalkedIdBytes(k)
         /\ WalkedStart(k + 1) = WalkedStart(k) + (WalkedNpts(k) - 1) * FileDelta + FileDelta

RECURSIVE SumWalkedNpts(_)
\* the sum of the sample counts of the first k examined blocks
SumWalkedNpts(k) == IF k = 0 THEN 0 ELSE WalkedNpts(k) + SumWalkedNpts(k - 1)

---------------------------------------------------------------------------
(* C20 *)

\* the call read the header counts and the record count, examined every
\* trace block of the file without an error, and the window held none of them
NothingInWindow ==
    /\ pc \in {"done", "error"}
    /\ CmpNbrHeaders(file).err = "ok"
    /\ CmpNbrRecords(file).err = "ok"
    /\ Len(walked) = CmpNbrRecords(file).nbr_records
    /\ WalkedKept = {}

\* C20: when the time window excludes every trace block of a well-formed file
\* (or nbr_records is 0), read_rg16 returns an empty stream without raising,
\* for every value of the other options, including merge=true.
C20_EmptyWindow ==
    NothingInWindow => (pc = "done" /\ traces = << >>)

---------------------------------------------------------------------------
(* C27 *)

\* C27: every trace the merger returns is built only from given traces that
\* share one trace id: no returned trace holds samples of two given traces
\* whose ids differ.
C27_OneIdPerOutput ==
    (MergeReturned /\ AllData) =>
        \A t \in 1..Len(traces) :
            \A a, b \in 1..Len(merge_in) :
                (t \in OutputsOf(merge_in[a]) /\ t \in OutputsOf(merge_in[b]))
                    => TraceId(merge_in[a]) = TraceId(merge_in[b])

---------------------------------------------------------------------------
(* C28 *)

\* C28: the merger leaves its input unchanged: after _quick_merge returns,
\* the given list has the same traces in the same order, each with the same
\* data and the same metadata as before the call, also the first member of
\* each group, whose metadata is copied into the output.
C28_InputUnchanged ==
    (MergeReturned \/ (pc = "done" /\ opts.merge)) => merge_arg = merge_in

\* a merge that joined two given traces into one, whose npts is not the
\* first member's
C28_Witness ==
    /\ MergeReturned
    /\ Len(merge_in) = 2 /\ Len(traces) = 1
    /\ traces[1].stats.npts > merge_in[1].stats.npts
    /\ traces[1].stats.npts > merge_in[2].stats.npts

---------------------------------------------------------------------------
(* C24 *)

\* the place of sample x in the t-th returned trace
PlaceIn(t, x) == CHOOSE i \in 1..Len(traces[t].data) : traces[t].data[i] = x

\* the given traces a and b are members of the t-th returned trace
BothIn(t, a, b) == t \in OutputsOf(merge_in[a]) /\ t \in OutputsOf(merge_in[b])

\* the returned traces are in ascending (id, starttime) order
OutputsAscending ==
    \A t, u \in 1..Len(traces) :
        t < u => ~RowLess(Rows(traces)[u], Rows(traces)[t])

\* in every returned trace the members stand in ascending starttime order,
\* and in the order of the given list when id and starttime are equal
MembersAscending ==
    \A t \in 1..Len(traces) :
        \A a, b \in 1..Len(merge_in) :
            (/\ BothIn(t, a, b)
             /\ \/ merge_in[a].stats.starttime < merge_in[b].stats.starttime
                \/ /\ merge_in[a].stats.starttime = merge_in[b].stats.starttime
                   /\ TraceId(merge_in[a]) = TraceId(merge_in[b])
                   /\ a < b)
            => PlaceIn(t, merge_in[a].data[1]) < PlaceIn(t, merge_in[b].data[1])

\* C24: without merge the traces of the returned stream are in the order of
\* their blocks in the file; with merge the returned traces are in ascending
\* (trace id, starttime) order and the members of one group are concatenated
\* in ascending starttime order, the order of the given list being kept among
\* members with equal id and starttime.
C24_Ordering ==
    /\ Unmerged =>
          /\ Len(traces) = Cardinality(WalkedKept)
          /\ \A j \in 1..Len(traces) :
               /\ traces[j].stats.starttime = WalkedStart(KeptBlock(j))
               /\ \A i \in 1..(j - 1) :
                    walked[KeptBlock(i)].pos < walked[KeptBlock(j)].pos
    /\ (MergeReturned /\ AllData) => (OutputsAscending /\ MembersAscending)

---------------------------------------------------------------------------
(* C22, C30 *)

\* the first byte of extended header 1, the count of extended headers and the
\* count of decimation filter coefficients written in the file
ExtendedStart == 32 + 32 + 32 * ReadBcd(file, 28, 2, TRUE)

NbrExtended == ReadBinary(file, 37, 2)

NbrDecCoeff == ReadBinary(file, ExtendedStart + 32 + 30, 2)

\* read_initial_headers returned its dictionary
HeadersRead == pc = "headers_read" /\ headers.err = "ok"

\* C22: when nbr_extended_headers > 3, extended header blocks 4..N are
\* decoded so that every block except the last holds coeff_1..coeff_8 read
\* at consecutive 4-byte offsets from the block start and block N holds
\* exactly number_decimation_filter_coefficient mod 8 coefficients; when
\* nbr_extended_headers <= 3 no block beyond 3 is produced.
C22_CoefficientBlocks ==
    HeadersRead =>
        LET eh == headers.extended_headers
        IN  IF NbrExtended > 3
            THEN /\ DOMAIN eh = 1..NbrExtended
                 /\ \A b \in 4..NbrExtended :
                      /\ DOMAIN eh[b] = {<<"coeff_", k>> :
                            k \in 1..(IF b = NbrExtended THEN NbrDecCoeff % 8 ELSE 8)}
                      /\ \A n \in DOMAIN eh[b] :
                            eh[b][n] = ReadIEEE(file, ExtendedStart + 32 * (b - 1)
                                                          + 4 * (n[2] - 1))
            ELSE DOMAIN eh = 1..3

\* three coefficient blocks decoded: eight coefficients in blocks 4 and 5,
\* the remaining one of 17 in block 6
C22_Witness ==
    /\ HeadersRead
    /\ NbrExtended = 6 /\ NbrDecCoeff = 17
    /\ Cardinality(DOMAIN headers.extended_headers[4]) = 8
    /\ Cardinality(DOMAIN headers.extended_headers[6]) = 1
    /\ headers.extended_headers[5][<<"coeff_", 2>>] = CoeffBytes(5, 2)

RECURSIVE SumCoeff(_, _)
\* the number of coefficients held by blocks 4..b of the dictionary eh
SumCoeff(eh, b) ==
    IF b < 4 THEN 0 ELSE Cardinality(DOMAIN eh[b]) + SumCoeff(eh, b - 1)

\* C30: when nbr_extended_headers = 3 + ceil(c / 8) for c =
\* number_decimation_filter_coefficient > 0, the number of coefficients
\* decoded over extended header blocks 4..N is c, for every c, the multiples
\* of 8 included.
C30_CoefficientTotal ==
    (/\ HeadersRead
     /\ NbrDecCoeff > 0
     /\ NbrExtended = 3 + ((NbrDecCoeff + 7) \div 8))
    => SumCoeff(headers.extended_headers, NbrExtended) = NbrDecCoeff

---------------------------------------------------------------------------
(* C23 *)

\* the names of the fields a sequence of reads fills
StepNames(steps) == {steps[k].name : k \in 1..Len(steps)}

\* the names of the fields of the 20-byte trace header and of extension
\* blocks 1..n of the block at p
TraceFieldNames(p, n) ==
    {"trace_number", "trace_edit_code"} \cup
    UNION {StepNames(DictFunc(i, p)) : i \in 1..n}

\* C23: with details=true every trace's metadata has an rg16 record whose
\* initial_headers is the full output of read_initial_headers and whose
\* trace_headers holds trace_number and trace_edit_code and the fields of
\* exactly the extension blocks 1..nbr_trace_extension_blocks; with
\* details=false the metadata has no rg16 key.
C23_Details ==
    Unmerged =>
        \A j \in 1..Len(traces) :
            LET st == traces[j].stats
                p == walked[KeptBlock(j)].pos
                ih == InternalReadInitialHeaders(file)
            IN  IF opts.details
                THEN /\ "rg16" \in DOMAIN st
                     /\ DOMAIN st.rg16 = {"initial_headers", "trace_headers"}
                     /\ ih.err = "ok"
                     /\ st.rg16.initial_headers = [k \in DOMAIN ih \ {"err"} |-> ih[k]]
                     /\ DOMAIN st.rg16.trace_headers =
                            TraceFieldNames(p, WalkedNtb(KeptBlock(j)))
                     /\ st.rg16.trace_headers["trace_number"] = ReadBcd(file, p + 4, 4, TRUE)
                     /\ st.rg16.trace_headers["trace_edit_code"] = Byte(file, p + 11)
                ELSE "rg16" \notin DOMAIN st

\* a trace read with details=true from a block of three extension blocks: its
\* trace_headers hold a field of block 3 and no field of block 4
C23_Witness ==
    /\ pc = "done" /\ ~opts.merge /\ opts.details
    /\ Len(traces) >= 1
    /\ WalkedNtb(KeptBlock(1)) = 3
    /\ "epoch_time" \in DOMAIN traces[1].stats.rg16.trace_headers
    /\ "pre_shot_guard_band" \notin DOMAIN traces[1].stats.rg16.trace_headers
    /\ traces[1].stats.rg16.initial_headers.general_header_2["version_number"] = 262

---------------------------------------------------------------------------
(* C26 *)

\* the width contract of the field reader for one read (w2 is the width in
\* half bytes): binary takes 1 to 8 whole bytes, IEEE takes 4 bytes, and a
\* width that is not whole goes with bcd only
WidthContract(s) ==
    /\ s.enc = "binary" => (s.w2 % 2 = 0 /\ s.w2 >= 2 /\ s.w2 <= 16)
    /\ s.enc = "IEEE" => s.w2 = 8
    /\ s.w2 % 2 = 1 => s.enc = "bcd"

\* C26: every call the decoder makes to the field reader respects the
\* reader's width contract: each binary read has a whole-byte width between
\* 1 and 8, each IEEE read has width 4, and widths 0.5 and 1.5 are used only
\* with bcd; here for the reads of read_initial_headers.
C26_WidthContract ==
    HeadersRead =>
        \A k \in 1..Len(InitialHeadersSteps(file)) :
            WidthContract(InitialHeadersSteps(file)[k])

---------------------------------------------------------------------------
(* C29 *)

\* the metadata reads made on the block at p, as <<offset, width>>: the start
\* time read by the walker (and _make_stats), and the network, station,
\* location, npts and component read by _make_stats
MetadataReads(p) ==
    {<<p + 20 + 2 * 32, 8>>, <<p + 20, 3>>, <<p + 23, 3>>, <<p + 26, 1>>,
     <<p + 27, 3>>, <<p + 40, 1>>}

\* C29: for every walked trace block with nbr_trace_extension_blocks in
\* 0..10, the metadata reads of the walker and of the trace-header decoder
\* lie inside the block's header region [pos, pos + 20 + 32 *
\* nbr_trace_extension_blocks), never in the sample bytes or the next block.
C29_ReadsInHeaderRegion ==
    \A k \in 1..Len(walked) :
        WalkedNtb(k) <= 10 =>
            \A r \in MetadataReads(walked[k].pos) :
                /\ walked[k].pos <= r[1]
                /\ r[1] + r[2] <= walked[k].pos + 20 + 32 * WalkedNtb(k)

---------------------------------------------------------------------------
(* C21 *)

\* C21: two read_rg16 calls on the same byte source with the same options
\* (the defaults included, where no starttime and endtime are given) end the
\* same way and return the same number of traces with identical data and
\* equal metadata, whatever the wall-clock time of each call.
C21_SameResultTwice ==
    (pc \in {"done", "error"} /\ earlier.pc # "none") =>
        /\ pc = earlier.pc
        /\ err = earlier.err
        /\ traces = earlier.traces

---------------------------------------------------------------------------
(* C25 *)

\* trace a comes before trace b in (network, station, channel, starttime)
\* order, the first key being the primary one
DefaultOrderLess(a, b) ==
    \/ KeyLess("network", a, b)
    \/ /\ a.stats.network = b.stats.network
       /\ \/ KeyLess("station", a, b)
          \/ /\ a.stats.station = b.stats.station
             /\ \/ KeyLess("channel", a, b)
                \/ /\ a.stats.channel = b.stats.channel
                   /\ KeyLess("starttime", a, b)

\* C25: Stream.sort() with the default keys orders the traces by network
\* first, then station, then channel, then starttime, on every call of any
\* sequence of sort calls on any streams, not only on the first call.
C25_DefaultSortOrder ==
    pc \in {"sorted", "sorted_again"} =>
        \A i, j \in 1..Len(traces) :
            i < j => ~DefaultOrderLess(traces[j], traces[i])

====
